---- MODULE Spec2Model ----
(***************************************************************************)
(* Campaign / call reconciliation engine of callyala.                      *)
(*                                                                         *)
(* The repository holds two applications over the same concepts:           *)
(*   "ops"  - src/backend/app/main.py, relational store (SQLAlchemy):      *)
(*            campaigns.py (upload_targets, start_campaign, ...) and       *)
(*            webhooks_elevenlabs.py (handle_post_call_webhook);           *)
(*   "yala" - src/backend/main.py, JSON-file store (services/storage.py):  *)
(*            services/campaign.py and webhooks.py (elevenlabs_webhook).   *)
(* The variable app says which of the two a behaviour runs.                *)
(***************************************************************************)
EXTENDS Integers, Sequences, FiniteSets, TLC

VARIABLES
    app,             \* which application is deployed: "ops" or "yala"
    webhook_secret,  \* settings.elevenlabs_webhook_secret ("" = not configured)
    campaigns,       \* ops: campaigns table, a sequence; the id is the index
    customers,       \* ops: customers table; a customer is its (org, phone) key
    targets,         \* ops: campaign_targets table, a sequence; the id is the index
    calls,           \* ops: calls table keyed by eleven_conversation_id
    dnc_entries,     \* ops: dnc_entries table, unique (org_id, phone_e164)
    appointments,    \* ops: appointments table, in insertion order
    audit_logs,      \* ops: audit_logs table, in insertion order
    batch_calls,     \* ops: batch requests the provider has received
    campaigns_file,  \* yala: data/campaigns.json, a sequence; the id is the index
    calls_file,      \* yala: data/calls.jsonl, a sequence; the id is the index
    webhook_dedup_file, \* yala: data/webhook_dedup.json, the items in dict order
    inflight,        \* requests suspended at an await, by slot
    http,            \* the last request's kind and its response
    classified,      \* the last call of an outcome classifier: input and result
    disk,            \* core/files.py: a JSON file, its temp files, a JSONL file, its lock
    procs,           \* core/files.py: the processes writing and reading those files
    marks            \* the clock, and for each webhook id the time of its last mark

opsVars == <<campaigns, customers, targets, calls, dnc_entries, appointments,
             audit_logs, batch_calls>>
yalaVars == <<campaigns_file, calls_file, webhook_dedup_file>>
vars == <<app, webhook_secret, campaigns, customers, targets, calls,
          dnc_entries, appointments, audit_logs, batch_calls,
          campaigns_file, calls_file, webhook_dedup_file, inflight, http,
          classified, disk, procs, marks>>

---------------------------------------------------------------------------
(* Bounds of the model *)
MaxCampaigns == 2
MaxTargets == 2
MaxUpload == 2
MaxApplied == 2
MaxRetry == 2
MaxSheets == 1
MaxLeads == 2

Orgs == {"o1", "o2"}
Phones == {"p1", "p2"}
ConvIds == {"c1"}
Secrets == {"", "s1"}
RetryChoices == 2..MaxRetry

\* attempts after which the reconciler fails a target (webhooks_elevenlabs.py:263)
AttemptsLimit == 3

NoConv == "none"      \* payload without conversationId
NoTarget == 0         \* metadata without target_id
NoBatch == "none"
NoId == "null"        \* a primary key not assigned yet (None)
NoSig == [present |-> FALSE]

Outcomes == {"BOOKED", "NO_ANSWER", "VOICEMAIL", "BUSY", "WRONG_NUMBER",
             "OPT_OUT", "CALLBACK_REQUESTED", "RESCHEDULED", "OTHER"}
TerminalStatuses == {"DONE", "FAILED", "OPTED_OUT"}

NoCall == [exists |-> FALSE]

\* webhook requests that may be handled at the same time
Slots == {1, 2}
Idle == [pc |-> "idle"]

---------------------------------------------------------------------------
(* Webhook payloads (schemas/webhooks.py) *)

NoAnalysis == [present |-> FALSE, appointment_booked |-> FALSE, opt_out |-> FALSE,
               callback_requested |-> FALSE, pickup_date |-> "none",
               callback_time |-> FALSE]

Flags(b, o, c, d, t) == [present |-> TRUE, appointment_booked |-> b, opt_out |-> o,
                         callback_requested |-> c, pickup_date |-> d,
                         callback_time |-> t]

\* pickup_date: "none" (absent), "iso" (parses), "bad" (does not parse)
Booked == Flags(TRUE, FALSE, FALSE, "iso", FALSE)
OptOut == Flags(FALSE, TRUE, FALSE, "none", FALSE)
Analyses == {NoAnalysis, Booked, OptOut}

\* every analysis object of the schema: absent (null, or the empty dict the
\* handler passes for it), or present with each flag true or not
AllAnalyses ==
    {NoAnalysis} \cup
    {Flags(b, o, c, d, t) : b \in BOOLEAN, o \in BOOLEAN, c \in BOOLEAN,
                            d \in {"none", "iso", "bad"}, t \in BOOLEAN}

\* payload.status: null, the values the classifier names, and others
Statuses == {"null", "completed", "no_answer", "busy", "voicemail", "failed"}

\* what the classifiers may raise instead of returning
Raised == "AttributeError"

NotClassified == [fn |-> "none"]

\* a transcript or summary: the pieces of text it is made of, <<>> for null
NoText == <<>>
Texts == {NoText, <<"a">>, <<"a", "b">>, <<"b">>}

AllPayloads == [conversation_id : ConvIds \cup {NoConv},
                target_id : 0..MaxTargets,
                analysis : Analyses,
                status : {"completed", "no_answer"},
                sentiment_score : {"none"},
                transcript : {NoText},
                summary : {NoText}]

\* the payloads the model delivers: a booked call, an opt-out, an unanswered
\* call, each for every conversation and target, and one without conversationId
Payloads ==
    {p \in AllPayloads :
        /\ p.analysis.present <=> p.status = "completed"
        /\ p.conversation_id = NoConv =>
               p.target_id = NoTarget /\ p.analysis = NoAnalysis}

\* the analyses the reconciler is run on: no analysis; booked with a date
\* that parses, without a date, with a date that does not parse; opt-out;
\* callback requested without and with a time; an analysis without any flag
ReconAnalyses ==
    {NoAnalysis, Booked, Flags(TRUE, FALSE, FALSE, "none", FALSE),
     Flags(TRUE, FALSE, FALSE, "bad", FALSE), OptOut,
     Flags(FALSE, FALSE, TRUE, "none", FALSE),
     Flags(FALSE, FALSE, TRUE, "none", TRUE),
     Flags(FALSE, FALSE, FALSE, "none", FALSE)}

\* sentiment_score: "none" (null), "low" (below -0.3), "ok" (any other)
ReconPayloads ==
    {p \in [conversation_id : ConvIds,
            target_id : 0..MaxTargets,
            analysis : ReconAnalyses,
            status : {"completed", "no_answer"},
            sentiment_score : {"none", "low", "ok"},
            transcript : {NoText},
            summary : {NoText}] :
        p.analysis.present <=> p.status = "completed"}

\* HMAC-SHA256 hexdigest: determined by key and message, lower-case hex
HmacHex(secret, body) == [present |-> TRUE, key |-> secret, msg |-> body, upper |-> FALSE]

Tampered(body) ==
    [body EXCEPT !.status = IF @ = "completed" THEN "no_answer" ELSE "completed"]

\* the signature headers a request for `body` may carry: none, the sender's
\* HMAC with the shared secret, with another key, or of another body
Signatures(body) ==
    {NoSig,
     HmacHex("s1", body),
     HmacHex("s2", body),
     HmacHex("s1", Tampered(body))}

\* what the header is, whatever a handler makes of it
SignatureKind(secret, body, signature) ==
    IF ~signature.present THEN "missing"
    ELSE IF signature = HmacHex(secret, body) THEN "valid"
    ELSE "invalid"

\* a webhook request: body, signature header, and whether the store's writes
\* succeed while it is handled
Requests ==
    {r \in [payload : Payloads, key : {"none", "s1", "s2", "tampered"}, io_ok : BOOLEAN] :
        ~r.io_ok => r.key = "s1"}

SignatureOf(r) ==
    CASE r.key = "none" -> NoSig
      [] r.key = "s1" -> HmacHex("s1", r.payload)
      [] r.key = "s2" -> HmacHex("s2", r.payload)
      [] OTHER -> HmacHex("s1", Tampered(r.payload))

---------------------------------------------------------------------------
(* ops: the relational store as one value *)

DB == [campaigns |-> campaigns, customers |-> customers, targets |-> targets,
       calls |-> calls, dnc_entries |-> dnc_entries, appointments |-> appointments,
       audit_logs |-> audit_logs, batch_calls |-> batch_calls]

Reply(db, code, message) == [db |-> db, code |-> code, message |-> message]

\* a verifier that accepts whatever header it is given
accept_any_signature(payload, signature, secret) == TRUE

verify_webhook_signature(payload, signature, secret) ==
    IF secret = "" THEN TRUE
    ELSE HmacHex(secret, payload) = signature

\* a classifier that looks at opt_out before appointment_booked
map_call_outcome_opt_out_first(analysis, status) ==
    IF ~analysis.present
    THEN CASE status = "no_answer" -> "NO_ANSWER"
           [] status = "busy" -> "BUSY"
           [] status = "voicemail" -> "VOICEMAIL"
           [] OTHER -> "OTHER"
    ELSE IF analysis.opt_out THEN "OPT_OUT"
    ELSE IF analysis.appointment_booked THEN "BOOKED"
    ELSE IF analysis.callback_requested THEN "CALLBACK_REQUESTED"
    ELSE "OTHER"

map_call_outcome(analysis, status) ==
    IF ~analysis.present
    THEN CASE status = "no_answer" -> "NO_ANSWER"
           [] status = "busy" -> "BUSY"
           [] status = "voicemail" -> "VOICEMAIL"
           [] OTHER -> "OTHER"
    ELSE IF analysis.appointment_booked THEN "BOOKED"
    ELSE IF analysis.opt_out THEN "OPT_OUT"
    ELSE IF analysis.callback_requested THEN "CALLBACK_REQUESTED"
    ELSE "OTHER"

\* a resolver that falls back to the first target when the metadata names none
ResolveFirstTarget(db, payload) ==
    IF payload.target_id /= NoTarget /\ payload.target_id \in 1..Len(db.targets)
    THEN payload.target_id
    ELSE IF Len(db.targets) > 0 THEN 1 ELSE NoTarget

\* the rows a webhook resolves: Call by conversation id, target by metadata
ResolveTarget(db, payload) ==
    IF payload.target_id /= NoTarget /\ payload.target_id \in 1..Len(db.targets)
    THEN payload.target_id ELSE NoTarget

\* session.commit(): flush the pending rows; a NULL in a NOT NULL column
\* (audit_logs.entity_id) or an I/O error aborts and rolls everything back
commit(db, pending, io_ok) ==
    IF ~io_ok THEN Reply(db, 500, "Internal server error")
    ELSE IF \E i \in 1..Len(pending.audit_logs) : pending.audit_logs[i].entity_id = NoId
    THEN Reply(db, 500, "Internal server error")
    ELSE Reply(pending, 200, "Webhook processed successfully")

\* the Call row the handler adds when no Call has the conversation id; its
\* primary key is assigned at flush
lazy_call(payload, tid, customer, campaign_id, outcome) ==
    [exists |-> TRUE, id |-> NoId, target_id |-> tid,
     customer_id |-> customer, campaign_id |-> campaign_id,
     status |-> "COMPLETED", outcome |-> outcome,
     requires_human_review |-> payload.sentiment_score = "low",
     transcript_text |-> payload.transcript,
     summary_text |-> payload.summary]

handle_post_call_webhook(db, secret, payload, signature, io_ok) ==
    IF secret /= "" /\ ~signature.present
    THEN Reply(db, 401, "Missing webhook signature")
    ELSE IF secret /= "" /\ ~verify_webhook_signature(payload, signature, secret)
    THEN Reply(db, 401, "Invalid webhook signature")
    ELSE IF payload.conversation_id = NoConv
    THEN Reply(db, 400, "Invalid payload")
    ELSE
    LET conv == payload.conversation_id
        call == db.calls[conv]
        tid == ResolveTarget(db, payload)
        has_target == tid /= NoTarget
        customer == IF has_target THEN db.targets[tid].customer_id ELSE <<>>
        has_customer == has_target
        campaign_id == IF has_target THEN db.targets[tid].campaign_id ELSE 0
        analysis == payload.analysis
        outcome == map_call_outcome(analysis, payload.status)
        low == payload.sentiment_score = "low"
    IN
    IF ~call.exists /\ ~has_customer
    THEN Reply(db, 200, "Webhook received, but no customer context found")
    ELSE
    LET call2 ==
            IF call.exists
            THEN [call EXCEPT !.status = "COMPLETED",
                              !.outcome = outcome,
                              !.transcript_text = payload.transcript,
                              !.summary_text = payload.summary,
                              !.requires_human_review =
                                  @ \/ low
                                    \/ (outcome = "CALLBACK_REQUESTED"
                                        /\ ~analysis.callback_time)]
            ELSE lazy_call(payload, tid, customer, campaign_id, outcome)
        targets2 ==
            IF has_target
            THEN LET t == db.targets[tid]
                     n == t.attempts_count + 1
                 IN [db.targets EXCEPT ![tid] =
                        [t EXCEPT !.attempts_count = n,
                                  !.last_outcome = outcome,
                                  !.status = IF outcome = "BOOKED" THEN "DONE"
                                             ELSE IF outcome = "OPT_OUT" THEN "OPTED_OUT"
                                             ELSE IF n >= AttemptsLimit THEN "FAILED"
                                             ELSE @]]
            ELSE db.targets
        dnc2 ==
            IF outcome = "OPT_OUT" /\ has_customer /\ customer \notin db.dnc_entries
            THEN db.dnc_entries \cup {customer}
            ELSE db.dnc_entries
        appointments2 ==
            IF outcome = "BOOKED" /\ has_customer /\ analysis.pickup_date /= "none"
            THEN Append(db.appointments,
                        [org_id |-> customer[1], customer_id |-> customer,
                         call_id |-> call2.id,
                         scheduled_start |-> IF analysis.pickup_date = "iso"
                                             THEN "parsed" ELSE "today_0900"])
            ELSE db.appointments
        audit2 ==
            IF has_customer
            THEN Append(db.audit_logs,
                        [org_id |-> customer[1], action |-> "CALL_COMPLETED",
                         entity_id |-> call2.id, outcome |-> outcome,
                         conversation_id |-> conv])
            ELSE db.audit_logs
        pending == [db EXCEPT !.calls = [@ EXCEPT ![conv] = call2],
                              !.targets = targets2,
                              !.dnc_entries = dnc2,
                              !.appointments = appointments2,
                              !.audit_logs = audit2]
    IN commit(db, pending, io_ok)

---------------------------------------------------------------------------
(* ops: operator API (api/routes/campaigns.py) *)

create_campaign(db, org, max_attempts) ==
    Reply([db EXCEPT !.campaigns =
              Append(@, [org_id |-> org, status |-> "DRAFT",
                         max_attempts |-> max_attempts,
                         eleven_batch_id |-> NoBatch])],
          201, "created")

NewTarget(campaign_id, customer) ==
    [campaign_id |-> campaign_id, customer_id |-> customer, status |-> "PENDING",
     attempts_count |-> 0, last_outcome |-> "none"]

HasTarget(rows, campaign_id, customer) ==
    \E i \in 1..Len(rows) :
        rows[i].campaign_id = campaign_id /\ rows[i].customer_id = customer

\* The loop of upload_targets over request.targets.  The session does not
\* autoflush (db/session.py:30): a SELECT sees the rows flushed so far
\* (acc.rows), not the targets added since the last flush (acc.pending);
\* db.flush() after creating a customer writes every pending row.
RECURSIVE upload_loop(_, _, _, _, _)
upload_loop(dnc, campaign_id, org, items, acc) ==
    IF items = <<>> THEN acc
    ELSE
    LET phone == Head(items)
        customer == <<org, phone>>
        rest == Tail(items)
    IN
    IF customer \in dnc
    THEN upload_loop(dnc, campaign_id, org, rest,
                     [acc EXCEPT !.skipped_dnc = @ + 1])
    ELSE
    LET acc1 == IF customer \in acc.customers THEN acc
                ELSE [acc EXCEPT !.customers = @ \cup {customer},
                                 !.rows = @ \o acc.pending,
                                 !.pending = <<>>]
    IN
    IF HasTarget(acc1.rows, campaign_id, customer)
    THEN upload_loop(dnc, campaign_id, org, rest,
                     [acc1 EXCEPT !.skipped_duplicate = @ + 1])
    ELSE upload_loop(dnc, campaign_id, org, rest,
                     [acc1 EXCEPT !.pending = Append(@, NewTarget(campaign_id, customer)),
                                  !.created = @ + 1])

UploadResult(db, code, message, created, skipped_dnc, skipped_duplicate) ==
    [db |-> db, code |-> code, message |-> message, created |-> created,
     skipped_dnc |-> skipped_dnc, skipped_duplicate |-> skipped_duplicate]

\* upload_targets without the lookup in dnc_entries
upload_targets_without_dnc(db, campaign_id, org, items) ==
    IF ~(campaign_id \in 1..Len(db.campaigns)) \/ db.campaigns[campaign_id].org_id /= org
    THEN UploadResult(db, 404, "Campaign not found", 0, 0, 0)
    ELSE IF db.campaigns[campaign_id].status \notin {"DRAFT", "READY"}
    THEN UploadResult(db, 400, "Cannot add targets to a running campaign", 0, 0, 0)
    ELSE
    LET acc == upload_loop({}, campaign_id, org, items,
                           [customers |-> db.customers, rows |-> db.targets,
                            pending |-> <<>>, created |-> 0, skipped_dnc |-> 0,
                            skipped_duplicate |-> 0])
        status2 == IF acc.created > 0 /\ db.campaigns[campaign_id].status = "DRAFT"
                   THEN "READY" ELSE db.campaigns[campaign_id].status
    IN UploadResult([db EXCEPT !.customers = acc.customers,
                               !.targets = acc.rows \o acc.pending,
                               !.campaigns[campaign_id].status = status2],
                    200, "uploaded", acc.created, acc.skipped_dnc,
                    acc.skipped_duplicate)

\* an upload that leaves the status of a DRAFT campaign alone
upload_targets_keeps_draft(db, campaign_id, org, items) ==
    IF ~(campaign_id \in 1..Len(db.campaigns)) \/ db.campaigns[campaign_id].org_id /= org
    THEN UploadResult(db, 404, "Campaign not found", 0, 0, 0)
    ELSE IF db.campaigns[campaign_id].status \notin {"DRAFT", "READY"}
    THEN UploadResult(db, 400, "Cannot add targets to a running campaign", 0, 0, 0)
    ELSE
    LET acc == upload_loop(db.dnc_entries, campaign_id, org, items,
                           [customers |-> db.customers, rows |-> db.targets,
                            pending |-> <<>>, created |-> 0, skipped_dnc |-> 0,
                            skipped_duplicate |-> 0])
        status2 == db.campaigns[campaign_id].status
    IN UploadResult([db EXCEPT !.customers = acc.customers,
                               !.targets = acc.rows \o acc.pending,
                               !.campaigns[campaign_id].status = status2],
                    200, "uploaded", acc.created, acc.skipped_dnc,
                    acc.skipped_duplicate)

upload_targets(db, campaign_id, org, items) ==
    IF ~(campaign_id \in 1..Len(db.campaigns)) \/ db.campaigns[campaign_id].org_id /= org
    THEN UploadResult(db, 404, "Campaign not found", 0, 0, 0)
    ELSE IF db.campaigns[campaign_id].status \notin {"DRAFT", "READY"}
    THEN UploadResult(db, 400, "Cannot add targets to a running campaign", 0, 0, 0)
    ELSE
    LET acc == upload_loop(db.dnc_entries, campaign_id, org, items,
                           [customers |-> db.customers, rows |-> db.targets,
                            pending |-> <<>>, created |-> 0, skipped_dnc |-> 0,
                            skipped_duplicate |-> 0])
        status2 == IF acc.created > 0 /\ db.campaigns[campaign_id].status = "DRAFT"
                   THEN "READY" ELSE db.campaigns[campaign_id].status
    IN UploadResult([db EXCEPT !.customers = acc.customers,
                               !.targets = acc.rows \o acc.pending,
                               !.campaigns[campaign_id].status = status2],
                    200, "uploaded", acc.created, acc.skipped_dnc,
                    acc.skipped_duplicate)

PendingTargets(db, campaign_id) ==
    {i \in 1..Len(db.targets) :
        db.targets[i].campaign_id = campaign_id /\ db.targets[i].status = "PENDING"}

Providers == {"ok", "http_error", "no_api_key"}

\* a start that marks every target of the table IN_PROGRESS
start_campaign_marks_every_target(db, campaign_id, org, provider) ==
    IF ~(campaign_id \in 1..Len(db.campaigns)) \/ db.campaigns[campaign_id].org_id /= org
    THEN Reply(db, 404, "Campaign not found")
    ELSE IF db.campaigns[campaign_id].status \notin {"READY", "PAUSED"}
    THEN Reply(db, 400, "Cannot start campaign")
    ELSE IF PendingTargets(db, campaign_id) = {}
    THEN Reply(db, 400, "No pending targets to call")
    ELSE
    LET selected == PendingTargets(db, campaign_id)
        recipients == {[phone_number |-> db.targets[i].customer_id[2],
                        target_id |-> i,
                        customer_id |-> db.targets[i].customer_id] : i \in selected}
        request == [campaign_id |-> campaign_id, recipients |-> recipients]
        sent == IF provider = "no_api_key" THEN db.batch_calls
                ELSE Append(db.batch_calls, request)
    IN
    IF provider = "ok"
    THEN Reply([db EXCEPT !.campaigns[campaign_id].status = "RUNNING",
                          !.campaigns[campaign_id].eleven_batch_id = "batch",
                          !.targets = [i \in 1..Len(@) |->
                                          [@[i] EXCEPT !.status = "IN_PROGRESS"]],
                          !.batch_calls = sent],
               200, "Campaign started")
    ELSE Reply([db EXCEPT !.campaigns[campaign_id].status = "FAILED",
                          !.batch_calls = sent],
               500, "Failed to start campaign")

\* provider: "ok", "http_error" (request made, provider answered an error or
\* timed out) or "no_api_key" (create_batch_call raises before any request)
start_campaign(db, campaign_id, org, provider) ==
    IF ~(campaign_id \in 1..Len(db.campaigns)) \/ db.campaigns[campaign_id].org_id /= org
    THEN Reply(db, 404, "Campaign not found")
    ELSE IF db.campaigns[campaign_id].status \notin {"READY", "PAUSED"}
    THEN Reply(db, 400, "Cannot start campaign")
    ELSE IF PendingTargets(db, campaign_id) = {}
    THEN Reply(db, 400, "No pending targets to call")
    ELSE
    LET selected == PendingTargets(db, campaign_id)
        recipients == {[phone_number |-> db.targets[i].customer_id[2],
                        target_id |-> i,
                        customer_id |-> db.targets[i].customer_id] : i \in selected}
        request == [campaign_id |-> campaign_id, recipients |-> recipients]
        sent == IF provider = "no_api_key" THEN db.batch_calls
                ELSE Append(db.batch_calls, request)
    IN
    IF provider = "ok"
    THEN Reply([db EXCEPT !.campaigns[campaign_id].status = "RUNNING",
                          !.campaigns[campaign_id].eleven_batch_id = "batch",
                          !.targets = [i \in 1..Len(@) |->
                                          IF i \in selected
                                          THEN [@[i] EXCEPT !.status = "IN_PROGRESS"]
                                          ELSE @[i]],
                          !.batch_calls = sent],
               200, "Campaign started")
    ELSE Reply([db EXCEPT !.campaigns[campaign_id].status = "FAILED",
                          !.batch_calls = sent],
               500, "Failed to start campaign")

pause_campaign(db, campaign_id, org) ==
    IF ~(campaign_id \in 1..Len(db.campaigns)) \/ db.campaigns[campaign_id].org_id /= org
    THEN Reply(db, 404, "Campaign not found")
    ELSE IF db.campaigns[campaign_id].status /= "RUNNING"
    THEN Reply(db, 400, "Campaign is not running")
    ELSE Reply([db EXCEPT !.campaigns[campaign_id].status = "PAUSED"],
               200, "Campaign paused")

\* A Call row written when a call is requested: QUEUED, with its primary key,
\* its target and the provider's conversation id.
request_call(db, target_id, conv) ==
    Reply([db EXCEPT !.calls[conv] =
              [exists |-> TRUE, id |-> conv, target_id |-> target_id,
               customer_id |-> db.targets[target_id].customer_id,
               campaign_id |-> db.targets[target_id].campaign_id,
               status |-> "QUEUED", outcome |-> "none",
               requires_human_review |-> FALSE,
               transcript_text |-> NoText, summary_text |-> NoText]],
          200, "queued")

---------------------------------------------------------------------------
(* ops: actions *)

Store(db) ==
    /\ campaigns' = db.campaigns
    /\ customers' = db.customers
    /\ targets' = db.targets
    /\ calls' = db.calls
    /\ dnc_entries' = db.dnc_entries
    /\ appointments' = db.appointments
    /\ audit_logs' = db.audit_logs
    /\ batch_calls' = db.batch_calls

Http(op, r, detail) == [op |-> op, code |-> r.code, message |-> r.message,
                        detail |-> detail]

NoDetail == [created |-> 0, skipped_dnc |-> 0, skipped_duplicate |-> 0]

\* phone numbers are interchangeable: an upload names "p2" only once "p1"
\* is known, so that one of each pair of mirrored behaviours is explored
Canonical(items) ==
    \A i \in 1..Len(items) :
        items[i] = "p2" =>
            \/ \E org \in Orgs : <<org, "p1">> \in customers
            \/ \E j \in 1..(i - 1) : items[j] = "p1"

\* the provider echoes the metadata its batch request carried for the
\* recipient: a delivery for a known conversation names that call's target
\* or none; without a secret the handler does not look at the signature
\* header, and one header stands for all
Deliveries ==
    {q \in Requests :
        LET conv == q.payload.conversation_id
        IN /\ (conv /= NoConv /\ calls[conv].exists)
               => q.payload.target_id \in {NoTarget, calls[conv].target_id}
           /\ webhook_secret = "" => q.key = "s1"}

UploadLists == UNION {[1..n -> Phones] : n \in 1..MaxUpload}

CreateCampaign ==
    /\ app = "ops"
    /\ Len(campaigns) < MaxCampaigns
    /\ \E org \in {"o1"}, m \in RetryChoices :
          LET r == create_campaign(DB, org, m)
          IN Store(r.db) /\ http' = Http("create_campaign", r, NoDetail)
    /\ UNCHANGED <<app, webhook_secret, yalaVars, inflight, classified, disk, procs, marks>>

UploadTargets ==
    /\ app = "ops"
    /\ \E c \in 1..MaxCampaigns, org \in Orgs, items \in UploadLists :
          /\ Canonical(items)
          /\ LET r == upload_targets(DB, c, org, items)
             IN /\ Len(r.db.targets) <= MaxTargets
                /\ Store(r.db)
                /\ http' = Http("upload_targets", r,
                                [created |-> r.created,
                                 skipped_dnc |-> r.skipped_dnc,
                                 skipped_duplicate |-> r.skipped_duplicate])
    /\ UNCHANGED <<app, webhook_secret, yalaVars, inflight, classified, disk, procs, marks>>

StartCampaign ==
    /\ app = "ops"
    /\ \E c \in 1..MaxCampaigns, org \in Orgs,
          provider \in Providers :
          LET r == start_campaign(DB, c, org, provider)
          IN Store(r.db) /\ http' = Http("start_campaign", r, NoDetail)
    /\ UNCHANGED <<app, webhook_secret, yalaVars, inflight, classified, disk, procs, marks>>

PauseCampaign ==
    /\ app = "ops"
    /\ \E c \in 1..MaxCampaigns, org \in Orgs :
          LET r == pause_campaign(DB, c, org)
          IN Store(r.db) /\ http' = Http("pause_campaign", r, NoDetail)
    /\ UNCHANGED <<app, webhook_secret, yalaVars, inflight, classified, disk, procs, marks>>

RequestCall ==
    /\ app = "ops"
    /\ \E t \in 1..Len(targets), conv \in DOMAIN calls :
          /\ targets[t].status = "IN_PROGRESS"
          /\ ~calls[conv].exists
          /\ LET r == request_call(DB, t, conv)
             IN Store(r.db) /\ http' = Http("request_call", r, NoDetail)
    /\ UNCHANGED <<app, webhook_secret, yalaVars, inflight, classified, disk, procs, marks>>

PostCallWebhook ==
    /\ app = "ops"
    /\ Len(audit_logs) < MaxApplied
    /\ \E q \in Deliveries :
          LET r == handle_post_call_webhook(DB, webhook_secret, q.payload,
                                            SignatureOf(q), q.io_ok)
          IN Store(r.db)
             /\ http' = Http("post_call", r, NoDetail)
    /\ UNCHANGED <<app, webhook_secret, yalaVars, inflight, classified, disk, procs, marks>>

---------------------------------------------------------------------------
(* yala: the JSON-file store (services/storage.py) and its webhook *)

\* settings.*_file as one value
FS == [campaigns |-> campaigns_file, calls |-> calls_file,
       dedup |-> webhook_dedup_file]

\* entries mark_webhook_processed keeps (storage.py:185)
DedupLimit == 10000

ExternalIds == {"e1", "e2"}

\* the call_id the provider returns for the i-th call of a batch
ProviderCallId(i) == IF i = 1 THEN "e1" ELSE IF i = 2 THEN "e2" ELSE "e3"

\* the "analysis" key of a payload: not there, null, an object whose intent
\* is missing or null, or an object with an intent string
AnalysisKinds == {"missing", "null", "null_intent", "object"}

\* the keyword groups map_outcome looks for, in the order it looks
KeywordGroups == {"appointment", "callback", "not_interested", "wrong_number",
                  "voicemail", "do_not_call", "transfer"}

YalaOutcomes == {"unknown", "voicemail", "callback_requested", "appointment_set",
                 "not_interested", "wrong_number", "do_not_call", "transferred",
                 "needs_followup"}

\* analysis.intent, lower-cased, as the set of keyword groups it contains
YalaPayloads ==
    {p \in [conversation_id : ExternalIds \cup {NoConv},
            type : {"call.completed", "call.no_answer"},
            analysis : {"object"},
            intent : {{}, {"appointment"}, {"do_not_call"}},
            status : {"completed", "no_answer"}] :
        /\ p.type = "call.completed" <=> p.status = "completed"
        /\ p.type = "call.no_answer" => p.intent = {}
        /\ p.conversation_id = NoConv => p.type = "call.no_answer"}

\* where the store's I/O may fail while a webhook is applied
FailPoints == {"none", "update_call", "rewrite", "mark_webhook_processed",
               "update_campaign"}

YalaRequests ==
    {r \in [payload : YalaPayloads, key : {"none", "s1", "s2", "tampered"},
            fail : FailPoints] :
        r.fail /= "none" => r.key = "s1"}

Lower(signature) ==
    IF signature.present THEN [signature EXCEPT !.upper = FALSE] ELSE signature

verify_elevenlabs_signature(payload, signature, secret) ==
    IF secret = "" THEN TRUE
    ELSE IF ~signature.present THEN FALSE
    ELSE Lower(HmacHex(secret, payload)) = Lower(signature)

\* data.get("analysis", {}) is None when the key is there with null, and
\* None has no .get; (analysis.get("intent") or "") is "" for a null intent
map_outcome(data) ==
    IF data.analysis = "null" THEN Raised
    ELSE
    LET intent == IF data.analysis = "object" THEN data.intent ELSE {}
    IN
    IF "appointment" \in intent THEN "appointment_set"
    ELSE IF "callback" \in intent THEN "callback_requested"
    ELSE IF "not_interested" \in intent THEN "not_interested"
    ELSE IF "wrong_number" \in intent THEN "wrong_number"
    ELSE IF "voicemail" \in intent THEN "voicemail"
    ELSE IF "do_not_call" \in intent THEN "do_not_call"
    ELSE IF "transfer" \in intent THEN "transferred"
    ELSE IF data.status = "no_answer" THEN "unknown"
    ELSE "unknown"

check_webhook_processed(dedup, webhook_id) ==
    \E i \in 1..Len(dedup) : dedup[i].id = webhook_id

\* dedup[webhook_id] = now: a key the dict holds keeps its place
Stamped(dedup, webhook_id, now) ==
    IF check_webhook_processed(dedup, webhook_id)
    THEN [i \in 1..Len(dedup) |->
             IF dedup[i].id = webhook_id THEN [dedup[i] EXCEPT !.at = now]
             ELSE dedup[i]]
    ELSE Append(dedup, [id |-> webhook_id, at |-> now])

\* the slice taken from the other end of the sorted items: the oldest stay
mark_webhook_processed_keeps_oldest(dedup, webhook_id, now) ==
    LET stamped == Stamped(dedup, webhook_id, now)
    IN IF Len(stamped) > DedupLimit
       THEN SubSeq(SortSeq(stamped, LAMBDA a, b : a.at > b.at),
                   Len(stamped) - DedupLimit + 1, Len(stamped))
       ELSE stamped

\* now is now_utc() at the call; over DedupLimit entries the items are sorted
\* by timestamp, newest first, and the first DedupLimit of them are kept
mark_webhook_processed(dedup, webhook_id, now) ==
    LET stamped == Stamped(dedup, webhook_id, now)
    IN IF Len(stamped) > DedupLimit
       THEN SubSeq(SortSeq(stamped, LAMBDA a, b : a.at > b.at), 1, DedupLimit)
       ELSE stamped

\* the newest timestamp of the index, 0 for an empty index
Latest(dedup) ==
    IF dedup = <<>> THEN 0
    ELSE LET times == {dedup[i].at : i \in 1..Len(dedup)}
         IN CHOOSE t \in times : \A u \in times : u <= t

\* index of the first record with that elevenlabs_call_id, 0 if there is none
get_call_by_elevenlabs_id(file, elevenlabs_call_id) ==
    IF \E i \in 1..Len(file) : file[i].elevenlabs_call_id = elevenlabs_call_id
    THEN CHOOSE i \in 1..Len(file) :
            /\ file[i].elevenlabs_call_id = elevenlabs_call_id
            /\ \A j \in 1..(i - 1) : file[j].elevenlabs_call_id /= elevenlabs_call_id
    ELSE 0

update_call(file, id, call) ==
    IF id \in 1..Len(file) THEN [file EXCEPT ![id] = call] ELSE file

update_campaign(file, id, campaign) ==
    IF id \in 1..Len(file) THEN [file EXCEPT ![id] = campaign] ELSE file

elevenlabs_webhook(fs, secret, data, signature, fail) ==
    IF secret /= "" /\ signature.present
       /\ ~verify_elevenlabs_signature(data, signature, secret)
    THEN Reply(fs, 401, "Invalid signature")
    ELSE IF data.conversation_id = NoConv
    THEN Reply(fs, 200, "ignored: no call_id")
    ELSE IF check_webhook_processed(fs.dedup, data.conversation_id)
    THEN Reply(fs, 200, "duplicate")
    ELSE
    LET id == get_call_by_elevenlabs_id(fs.calls, data.conversation_id)
    IN
    IF id = 0
    THEN Reply(fs, 200, "ignored: call not found")
    ELSE IF data.type = "call.completed" /\ map_outcome(data) = Raised
    THEN Reply(fs, 500, "Internal Server Error")
    ELSE
    LET old == fs.calls[id]
        call == IF data.type = "call.completed"
                THEN [old EXCEPT !.status = "completed", !.outcome = map_outcome(data)]
                ELSE IF data.type = "call.failed"
                THEN [old EXCEPT !.status = "failed"]
                ELSE IF data.type = "call.no_answer"
                THEN [old EXCEPT !.status = "no_answer"]
                ELSE IF data.type = "call.busy"
                THEN [old EXCEPT !.status = "busy"]
                ELSE old
        fs1 == [fs EXCEPT !.calls = update_call(@, id, call)]
        \* the clock has moved on since the last mark
        fs2 == [fs1 EXCEPT !.dedup = mark_webhook_processed(@, data.conversation_id,
                                                            Latest(@) + 1)]
        cid == call.campaign_id
        fs3 == IF cid \in 1..Len(fs2.campaigns)
               THEN [fs2 EXCEPT !.campaigns = update_campaign(@, cid,
                        [@[cid] EXCEPT
                            !.calls_completed = @ + 1,
                            !.calls_successful =
                                IF call.outcome \in {"appointment_set",
                                                     "callback_requested"}
                                THEN @ + 1 ELSE @])]
               ELSE fs2
    IN
    CASE fail = "update_call" -> Reply(fs, 500, "Internal Server Error")
      [] fail = "rewrite" -> Reply([fs EXCEPT !.calls = <<>>], 500,
                                   "Internal Server Error")
      [] fail = "mark_webhook_processed" -> Reply(fs1, 500, "Internal Server Error")
      [] fail = "update_campaign" -> Reply(fs2, 500, "Internal Server Error")
      [] OTHER -> Reply(fs3, 200, "processed")

create_from_sheet(fs, rows) ==
    LET cid == Len(fs.campaigns) + 1
    IN Reply([fs EXCEPT
                 !.campaigns = Append(@, [status |-> "draft", total_leads |-> rows,
                                          calls_made |-> 0, calls_completed |-> 0,
                                          calls_successful |-> 0]),
                 !.calls = @ \o [i \in 1..rows |->
                                    [campaign_id |-> cid, status |-> "pending",
                                     outcome |-> "unknown",
                                     elevenlabs_call_id |-> NoConv]]],
             200, "created")

PendingCalls(fs, cid) ==
    {i \in 1..Len(fs.calls) :
        fs.calls[i].campaign_id = cid /\ fs.calls[i].status = "pending"}

\* errors: the calls of the batch for which the provider reports an error
yala_start_campaign(fs, cid, errors) ==
    IF ~(cid \in 1..Len(fs.campaigns))
    THEN Reply(fs, 400, "Campaign not found")
    ELSE IF fs.campaigns[cid].status = "running"
    THEN Reply(fs, 400, "Campaign is already running")
    ELSE IF PendingCalls(fs, cid) = {}
    THEN Reply([fs EXCEPT !.campaigns[cid].status = "completed"],
               200, "No pending calls")
    ELSE
    LET batch == PendingCalls(fs, cid)
        queued == batch \ errors
    IN Reply([fs EXCEPT
                 !.campaigns[cid].status = "running",
                 !.campaigns[cid].calls_made = @ + Cardinality(queued),
                 !.calls = [i \in 1..Len(@) |->
                               IF i \in queued
                               THEN [@[i] EXCEPT !.status = "queued",
                                                 !.elevenlabs_call_id =
                                                     ProviderCallId(i)]
                               ELSE IF i \in batch
                               THEN [@[i] EXCEPT !.status = "failed"]
                               ELSE @[i]]],
             200, "running")

yala_pause_campaign(fs, cid) ==
    IF ~(cid \in 1..Len(fs.campaigns))
    THEN Reply(fs, 400, "Campaign not found")
    ELSE Reply([fs EXCEPT !.campaigns[cid].status = "paused"], 200, "paused")

---------------------------------------------------------------------------
(* yala: actions *)

StoreFiles(fs) ==
    /\ campaigns_file' = fs.campaigns
    /\ calls_file' = fs.calls
    /\ webhook_dedup_file' = fs.dedup

CreateFromSheet ==
    /\ app = "yala"
    /\ Len(campaigns_file) < MaxSheets
    /\ \E rows \in 1..MaxLeads :
          /\ Len(calls_file) + rows <= MaxLeads
          /\ LET r == create_from_sheet(FS, rows)
             IN StoreFiles(r.db) /\ http' = Http("create_from_sheet", r, NoDetail)
    /\ UNCHANGED <<app, webhook_secret, opsVars, inflight, classified, disk, procs, marks>>

YalaStartCampaign ==
    /\ app = "yala"
    /\ \E cid \in 1..MaxSheets, errors \in SUBSET (1..MaxLeads) :
          LET r == yala_start_campaign(FS, cid, errors)
          IN StoreFiles(r.db) /\ http' = Http("yala_start_campaign", r, NoDetail)
    /\ UNCHANGED <<app, webhook_secret, opsVars, inflight, classified, disk, procs, marks>>

YalaPauseCampaign ==
    /\ app = "yala"
    /\ \E cid \in 1..MaxSheets :
          LET r == yala_pause_campaign(FS, cid)
          IN StoreFiles(r.db) /\ http' = Http("yala_pause_campaign", r, NoDetail)
    /\ UNCHANGED <<app, webhook_secret, opsVars, inflight, classified, disk, procs, marks>>

\* without a secret no handler looks at the signature header: one header
\* stands for all
YalaDeliveries == {q \in YalaRequests : webhook_secret = "" => q.key = "s1"}

ElevenlabsWebhook ==
    /\ app = "yala"
    /\ \E q \in YalaDeliveries :
          LET r == elevenlabs_webhook(FS, webhook_secret, q.payload,
                                      SignatureOf(q), q.fail)
          IN StoreFiles(r.db) /\ http' = Http("elevenlabs_webhook", r, NoDetail)
    /\ UNCHANGED <<app, webhook_secret, opsVars, inflight, classified, disk, procs, marks>>

---------------------------------------------------------------------------
(* the outcome classifiers, called on their own *)

\* arguments of map_call_outcome: the analysis dict and payload.status
CallInputs == [analysis : AllAnalyses, status : Statuses]

\* arguments of map_outcome: a payload dict; the intent holds at most two
\* keyword groups, and there is one only in an analysis object
IntentInputs ==
    {d \in [analysis : AnalysisKinds,
            intent : {w \in SUBSET KeywordGroups : Cardinality(w) <= 2},
            status : {"null", "completed", "no_answer"}] :
        d.analysis /= "object" => d.intent = {}}

MapCallOutcome ==
    /\ app = "ops"
    /\ \E x \in CallInputs :
          classified' = [fn |-> "map_call_outcome", input |-> x,
                         out |-> map_call_outcome(x.analysis, x.status)]
    /\ UNCHANGED <<app, webhook_secret, opsVars, yalaVars, inflight, http, disk, procs, marks>>

MapOutcome ==
    /\ app = "yala"
    /\ \E d \in IntentInputs :
          classified' = [fn |-> "map_outcome", input |-> d, out |-> map_outcome(d)]
    /\ UNCHANGED <<app, webhook_secret, opsVars, yalaVars, inflight, http, disk, procs, marks>>

---------------------------------------------------------------------------
(* core/files.py: atomic_write_json, read_json and append_jsonl, each called *)
(* by processes of its own.  A file's content is the sequence of the pieces  *)
(* written to it: json.dump writes a document in JsonChunks pieces, and a    *)
(* JSONL record is written as a head and a tail that ends with "\n".         *)

Writers == {"w1", "w2"}
Appenders == {"a1", "a2"}
Reader == "reader"

JsonChunks == 2

\* the document a writer dumps; 0 is the document the file held before
DataOf(w) == IF w = "w1" THEN 1 ELSE 2

Document(d) == [i \in 1..JsonChunks |-> d]

NoFile == [exists |-> FALSE]

NoWrites == [json |-> Document(0),
             tmp |-> [w \in Writers |-> NoFile],
             jsonl |-> <<>>,
             lock |-> "free"]

NotStarted ==
    [x \in Writers \cup Appenders \cup {Reader} |->
        IF x \in Writers THEN [pc |-> "idle"]
        ELSE IF x \in Appenders THEN [pc |-> "idle", before |-> {}]
        ELSE [pc |-> "idle", saw |-> Document(0)]]

\* a replacement that copies the temp file's pieces into the target one by one
copy_first_chunk(d, w) ==
    [d EXCEPT !.json = SubSeq(d.tmp[w].content, 1, 1), !.tmp[w] = NoFile]

\* os.replace(tmp_path, path): the path names the temp file's content
os_replace(d, w) ==
    [d EXCEPT !.json = d.tmp[w].content, !.tmp[w] = NoFile]

\* a lock that every caller gets at once
lock_not_exclusive(d) == TRUE

\* portalocker.Lock(path, "a"): the exclusive lock is free
lock_is_free(d) == d.lock = "free"

\* tempfile.mkstemp in the directory of the target
Mkstemp ==
    /\ \E w \in Writers :
          /\ procs[w].pc = "idle"
          /\ disk' = [disk EXCEPT !.tmp[w] = [exists |-> TRUE, content |-> <<>>]]
          /\ procs' = [procs EXCEPT ![w].pc = "dump"]
    /\ UNCHANGED <<app, webhook_secret, opsVars, yalaVars, inflight, http, classified, marks>>

\* json.dump writes the next piece into the temp file
Dump ==
    /\ \E w \in Writers :
          /\ procs[w].pc = "dump"
          /\ Len(disk.tmp[w].content) < JsonChunks
          /\ disk' = [disk EXCEPT !.tmp[w].content = Append(@, DataOf(w))]
          /\ UNCHANGED procs
    /\ UNCHANGED <<app, webhook_secret, opsVars, yalaVars, inflight, http, classified, marks>>

Replace ==
    /\ \E w \in Writers :
          /\ procs[w].pc = "dump"
          /\ Len(disk.tmp[w].content) = JsonChunks
          /\ disk' = os_replace(disk, w)
          /\ procs' = [procs EXCEPT ![w].pc = "done"]
    /\ UNCHANGED <<app, webhook_secret, opsVars, yalaVars, inflight, http, classified, marks>>

\* an exception while dumping: the temp file is unlinked and the error raised
DumpFails ==
    /\ \E w \in Writers :
          /\ procs[w].pc = "dump"
          /\ disk' = [disk EXCEPT !.tmp[w] = NoFile]
          /\ procs' = [procs EXCEPT ![w].pc = "raised"]
    /\ UNCHANGED <<app, webhook_secret, opsVars, yalaVars, inflight, http, classified, marks>>

\* the process dies: no handler runs, its temp file stays as it is
Crash ==
    /\ \E w \in Writers :
          /\ procs[w].pc = "dump"
          /\ procs' = [procs EXCEPT ![w].pc = "crashed"]
          /\ UNCHANGED disk
    /\ UNCHANGED <<app, webhook_secret, opsVars, yalaVars, inflight, http, classified, marks>>

\* read_json: open(path) gives the content the path names at that moment
ReadJson ==
    /\ procs' = [procs EXCEPT ![Reader] = [pc |-> "read", saw |-> disk.json]]
    /\ UNCHANGED disk
    /\ UNCHANGED <<app, webhook_secret, opsVars, yalaVars, inflight, http, classified, marks>>

\* append_jsonl takes the lock; `before` are the appends that had returned
LockAppend ==
    /\ \E a \in Appenders :
          /\ procs[a].pc = "idle"
          /\ lock_is_free(disk)
          /\ disk' = [disk EXCEPT !.lock = a]
          /\ procs' = [procs EXCEPT ![a] =
                          [pc |-> "locked",
                           before |-> {b \in Appenders : procs[b].pc = "done"}]]
    /\ UNCHANGED <<app, webhook_secret, opsVars, yalaVars, inflight, http, classified, marks>>

\* the lock stays held for the 10 s timeout: LockException, nothing written
LockTimeout ==
    /\ \E a \in Appenders :
          /\ procs[a].pc = "idle"
          /\ ~lock_is_free(disk)
          /\ procs' = [procs EXCEPT ![a].pc = "raised"]
          /\ UNCHANGED disk
    /\ UNCHANGED <<app, webhook_secret, opsVars, yalaVars, inflight, http, classified, marks>>

\* f.write / f.flush: the record reaches the file head first, then tail
WriteAppend ==
    /\ \E a \in Appenders :
          \/ /\ procs[a].pc = "locked"
             /\ disk' = [disk EXCEPT !.jsonl = Append(@, [rec |-> a, part |-> "head"])]
             /\ procs' = [procs EXCEPT ![a].pc = "writing"]
          \/ /\ procs[a].pc = "writing"
             /\ disk' = [disk EXCEPT !.jsonl = Append(@, [rec |-> a, part |-> "tail"])]
             /\ procs' = [procs EXCEPT ![a].pc = "written"]
    /\ UNCHANGED <<app, webhook_secret, opsVars, yalaVars, inflight, http, classified, marks>>

\* leaving the with block closes the file and releases the lock
UnlockAppend ==
    /\ \E a \in Appenders :
          /\ procs[a].pc = "written"
          /\ disk' = [disk EXCEPT !.lock = IF @ = a THEN "free" ELSE @]
          /\ procs' = [procs EXCEPT ![a].pc = "done"]
    /\ UNCHANGED <<app, webhook_secret, opsVars, yalaVars, inflight, http, classified, marks>>

NoMarks == [clock |-> 0, id |-> 0, last |-> <<>>]

Init ==
    /\ app \in {"ops", "yala"}
    /\ webhook_secret \in Secrets
    /\ campaigns = <<>>
    /\ customers = {}
    /\ targets = <<>>
    /\ calls = [c \in ConvIds |-> NoCall]
    /\ dnc_entries = {}
    /\ appointments = <<>>
    /\ audit_logs = <<>>
    /\ batch_calls = <<>>
    /\ campaigns_file = <<>>
    /\ calls_file = <<>>
    /\ webhook_dedup_file = <<>>
    /\ inflight = [k \in Slots |-> Idle]
    /\ http = [op |-> "none", code |-> 0, message |-> "", detail |-> NoDetail]
    /\ classified = NotClassified
    /\ disk = NoWrites
    /\ procs = NotStarted
    /\ marks = NoMarks

Next ==
    \/ CreateCampaign
    \/ UploadTargets
    \/ StartCampaign
    \/ PauseCampaign
    \/ RequestCall
    \/ PostCallWebhook
    \/ CreateFromSheet
    \/ YalaStartCampaign
    \/ YalaPauseCampaign
    \/ ElevenlabsWebhook

Spec == Init /\ [][Next]_vars

\* ops: reconciliation of every kind of analysis.  The provider echoes the
\* metadata of the batch request, or sends none; the request is signed with
\* the configured secret.
ReconDeliveries ==
    {p \in ReconPayloads :
        calls[p.conversation_id].exists
            => p.target_id \in {NoTarget, calls[p.conversation_id].target_id}}

Reconcile ==
    /\ app = "ops"
    /\ Len(audit_logs) < MaxApplied
    /\ \E p \in ReconDeliveries :
          LET r == handle_post_call_webhook(DB, webhook_secret, p,
                                            HmacHex(webhook_secret, p), TRUE)
          IN Store(r.db) /\ http' = Http("post_call", r, NoDetail)
    /\ UNCHANGED <<app, webhook_secret, yalaVars, inflight, classified, disk, procs, marks>>

InitRecon == Init /\ app = "ops" /\ webhook_secret = "s1"

NextRecon ==
    \/ CreateCampaign
    \/ UploadTargets
    \/ StartCampaign
    \/ RequestCall
    \/ Reconcile

SpecRecon == InitRecon /\ [][NextRecon]_vars

(* start requests handled at the same time: the handlers give way to one  *)
(* another at each await, and a slot holds what a suspended request has   *)
(* read so far                                                             *)

\* the recipients start_campaign builds from the targets it selected
Recipients(db, selected) ==
    {[phone_number |-> db.targets[i].customer_id[2],
      target_id |-> i,
      customer_id |-> db.targets[i].customer_id] : i \in selected}

\* ops start_campaign up to its provider call: the campaign and its PENDING
\* targets are read; a request it rejects is answered at once
StartRead ==
    /\ app = "ops"
    /\ \E k \in Slots, c \in 1..MaxCampaigns, org \in Orgs :
          /\ inflight[k].pc = "idle"
          /\ LET r == start_campaign(DB, c, org, "ok")
             IN IF r.code /= 200
                THEN /\ http' = Http("start_campaign",
                                     Reply(DB, r.code, r.message), NoDetail)
                     /\ UNCHANGED inflight
                ELSE /\ inflight' = [inflight EXCEPT ![k] =
                                        [pc |-> "start_read", campaign_id |-> c,
                                         selected |-> PendingTargets(DB, c)]]
                     /\ UNCHANGED http
    /\ UNCHANGED <<app, webhook_secret, opsVars, yalaVars, classified, disk, procs, marks>>

\* await client.create_batch_call(...): the provider gets the request, or
\* the client raises before it makes one
StartSend ==
    /\ app = "ops"
    /\ \E k \in Slots, provider \in Providers :
          /\ inflight[k].pc = "start_read"
          /\ batch_calls' =
                IF provider = "no_api_key" THEN batch_calls
                ELSE Append(batch_calls,
                            [campaign_id |-> inflight[k].campaign_id,
                             recipients |-> Recipients(DB, inflight[k].selected)])
          /\ inflight' = [inflight EXCEPT ![k] =
                             [@ EXCEPT !.pc = "start_sent"] @@ [provider |-> provider]]
    /\ UNCHANGED <<app, webhook_secret, campaigns, customers, targets, calls,
                   dnc_entries, appointments, audit_logs, yalaVars, http,
                   classified, disk, procs, marks>>

\* the rows the request changed are written: the campaign and the targets
\* it had selected after a success, the campaign alone after a failure
StartCommit ==
    /\ app = "ops"
    /\ \E k \in Slots :
          /\ inflight[k].pc = "start_sent"
          /\ LET c == inflight[k].campaign_id
                 ok == inflight[k].provider = "ok"
                 code == IF ok THEN 200 ELSE 500
             IN /\ campaigns' =
                      IF ok
                      THEN [campaigns EXCEPT ![c].status = "RUNNING",
                                             ![c].eleven_batch_id = "batch"]
                      ELSE [campaigns EXCEPT ![c].status = "FAILED"]
                /\ targets' =
                      IF ok
                      THEN [i \in 1..Len(targets) |->
                               IF i \in inflight[k].selected
                               THEN [targets[i] EXCEPT !.status = "IN_PROGRESS"]
                               ELSE targets[i]]
                      ELSE targets
                /\ http' = [op |-> "start_campaign", code |-> code,
                            message |-> IF ok THEN "Campaign started"
                                        ELSE "Failed to start campaign",
                            detail |-> NoDetail]
                /\ inflight' = [inflight EXCEPT ![k] =
                                   [pc |-> "done", campaign_id |-> c,
                                    selected |-> inflight[k].selected,
                                    code |-> code]]
    /\ UNCHANGED <<app, webhook_secret, customers, calls, dnc_entries,
                   appointments, audit_logs, batch_calls, yalaVars,
                   classified, disk, procs, marks>>

\* CampaignService.start_campaign up to the end of initiate_batch_calls:
\* the status is written first, then every call of the batch is requested
\* from the provider, which answers each with a call id or an error
YalaStartSend ==
    /\ app = "yala"
    /\ \E k \in Slots, cid \in 1..MaxSheets, errors \in SUBSET (1..MaxLeads) :
          /\ inflight[k].pc = "idle"
          /\ LET r == yala_start_campaign(FS, cid, errors)
                 rejected == r.code /= 200 \/ r.message = "No pending calls"
             IN IF rejected
                THEN /\ StoreFiles(r.db)
                     /\ http' = Http("yala_start_campaign", r, NoDetail)
                     /\ UNCHANGED inflight
                ELSE /\ errors \subseteq PendingCalls(FS, cid)
                     /\ campaigns_file' =
                            [campaigns_file EXCEPT ![cid].status = "running"]
                     /\ inflight' = [inflight EXCEPT ![k] =
                                        [pc |-> "initiated", campaign_id |-> cid,
                                         campaign |-> [campaigns_file[cid] EXCEPT
                                                          !.status = "running"],
                                         batch |-> PendingCalls(FS, cid),
                                         errors |-> errors]]
                     /\ UNCHANGED <<calls_file, webhook_dedup_file, http>>
    /\ UNCHANGED <<app, webhook_secret, opsVars, classified, disk, procs, marks>>

\* the rest of CampaignService.start_campaign: each call of the batch is
\* read again and written as queued, with the provider's call id, or as
\* failed; then the campaign object read at the start is written back
YalaStartStore ==
    /\ app = "yala"
    /\ \E k \in Slots :
          /\ inflight[k].pc = "initiated"
          /\ LET cid == inflight[k].campaign_id
                 batch == inflight[k].batch
                 queued == batch \ inflight[k].errors
             IN /\ calls_file' =
                      [i \in 1..Len(calls_file) |->
                          IF i \in queued
                          THEN [calls_file[i] EXCEPT
                                   !.status = "queued",
                                   !.elevenlabs_call_id = ProviderCallId(i)]
                          ELSE IF i \in batch
                          THEN [calls_file[i] EXCEPT !.status = "failed"]
                          ELSE calls_file[i]]
                /\ campaigns_file' =
                      update_campaign(campaigns_file, cid,
                          [inflight[k].campaign EXCEPT
                              !.calls_made = @ + Cardinality(queued)])
                /\ http' = [op |-> "yala_start_campaign", code |-> 200,
                            message |-> "running", detail |-> NoDetail]
                /\ inflight' = [inflight EXCEPT ![k] =
                                   [pc |-> "done", campaign_id |-> cid,
                                    batch |-> batch, code |-> 200]]
    /\ UNCHANGED <<app, webhook_secret, opsVars, webhook_dedup_file,
                   classified, disk, procs, marks>>

\* campaigns are set up while no request is suspended
SetupStart ==
    /\ \A k \in Slots : inflight[k].pc = "idle"
    /\ (CreateCampaign \/ UploadTargets \/ CreateFromSheet)

NextStart ==
    \/ SetupStart
    \/ StartRead
    \/ StartSend
    \/ StartCommit
    \/ YalaStartSend
    \/ YalaStartStore
    \/ ElevenlabsWebhook

SpecStart == Init /\ [][NextStart]_vars

\* settings.max_batch_size (core/config.py:42)
MaxBatchSize == 200

\* ops: a READY campaign whose uploads have enrolled as many customers as
\* the batch size, or one more; the phone of customer i is the number i
InitBatch ==
    /\ app = "ops"
    /\ webhook_secret = ""
    /\ campaigns = <<[org_id |-> "o1", status |-> "READY",
                      max_attempts |-> AttemptsLimit,
                      eleven_batch_id |-> NoBatch]>>
    /\ \E n \in {MaxBatchSize, MaxBatchSize + 1} :
          /\ customers = {<<"o1", i>> : i \in 1..n}
          /\ targets = [i \in 1..n |-> NewTarget(1, <<"o1", i>>)]
    /\ calls = [c \in ConvIds |-> NoCall]
    /\ dnc_entries = {}
    /\ appointments = <<>>
    /\ audit_logs = <<>>
    /\ batch_calls = <<>>
    /\ campaigns_file = <<>>
    /\ calls_file = <<>>
    /\ webhook_dedup_file = <<>>
    /\ inflight = [k \in Slots |-> Idle]
    /\ http = [op |-> "none", code |-> 0, message |-> "", detail |-> NoDetail]
    /\ classified = NotClassified
    /\ disk = NoWrites
    /\ procs = NotStarted
    /\ marks = NoMarks

NextBatch ==
    \/ StartCampaign
    \/ PauseCampaign
    \/ RequestCall
    \/ PostCallWebhook

SpecBatch == InitBatch /\ [][NextBatch]_vars

\* mark_webhook_processed called on a dedup index that is full; the webhook
\* ids are numbers here, and the clock moves on between two marks
MaxMarks == 3

\* a full index as a mark with eviction leaves it, newest first: ids
\* 0..DedupLimit were marked in that order, one per tick, and id 0 evicted
Preloaded ==
    [i \in 1..DedupLimit |->
        [id |-> DedupLimit + 1 - i, at |-> DedupLimit + 2 - i]]

\* the evicted id, the oldest ids the index holds, its newest, and new ids
MarkIds == {0, 1, 2, DedupLimit, DedupLimit + 1, DedupLimit + 2}

InitDedup ==
    /\ app = "yala"
    /\ webhook_secret = ""
    /\ campaigns = <<>>
    /\ customers = {}
    /\ targets = <<>>
    /\ calls = [c \in ConvIds |-> NoCall]
    /\ dnc_entries = {}
    /\ appointments = <<>>
    /\ audit_logs = <<>>
    /\ batch_calls = <<>>
    /\ campaigns_file = <<>>
    /\ calls_file = <<>>
    /\ webhook_dedup_file = Preloaded
    /\ inflight = [k \in Slots |-> Idle]
    /\ http = [op |-> "none", code |-> 0, message |-> "", detail |-> NoDetail]
    /\ classified = NotClassified
    /\ disk = NoWrites
    /\ procs = NotStarted
    /\ marks = [clock |-> DedupLimit + 1,
                id |-> DedupLimit,
                last |-> [i \in 0..(DedupLimit + 2) |->
                             IF i <= DedupLimit THEN i + 1 ELSE 0]]

MarkWebhookProcessed ==
    /\ marks.clock < DedupLimit + 1 + MaxMarks
    /\ \E id \in MarkIds :
          LET now == marks.clock + 1
          IN /\ webhook_dedup_file' =
                    mark_webhook_processed(webhook_dedup_file, id, now)
             /\ marks' = [clock |-> now, id |-> id,
                          last |-> [marks.last EXCEPT ![id] = now]]
    /\ UNCHANGED <<app, webhook_secret, opsVars, campaigns_file, calls_file,
                   inflight, http, classified, disk, procs>>

NextDedup == MarkWebhookProcessed

SpecDedup == InitDedup /\ [][NextDedup]_vars

(* upload_targets handled while webhooks are: its loop reads dnc_entries   *)
(* at an await for each phone, and its rows are committed at the end       *)

\* upload_targets up to its commit: the campaign is read and the loop run
\* on what the database holds now; a rejected request is answered at once
UploadCheck ==
    /\ app = "ops"
    /\ \E k \in Slots, c \in 1..MaxCampaigns, org \in Orgs, items \in UploadLists :
          /\ Canonical(items)
          /\ inflight[k].pc = "idle"
          /\ LET r == upload_targets(DB, c, org, items)
             IN /\ Len(r.db.targets) <= MaxTargets
                /\ IF r.code /= 200
                   THEN /\ http' = Http("upload_targets", r, NoDetail)
                        /\ UNCHANGED inflight
                   ELSE /\ inflight' = [inflight EXCEPT ![k] =
                               [pc |-> "upload_checked", campaign_id |-> c,
                                customers |-> r.db.customers \ customers,
                                pending |-> SubSeq(r.db.targets, Len(targets) + 1,
                                                   Len(r.db.targets)),
                                status |-> r.db.campaigns[c].status,
                                detail |-> [created |-> r.created,
                                            skipped_dnc |-> r.skipped_dnc,
                                            skipped_duplicate |-> r.skipped_duplicate]]]
                        /\ UNCHANGED http
    /\ UNCHANGED <<app, webhook_secret, opsVars, yalaVars, classified, disk, procs, marks>>

\* await db.commit(): the customers and targets the loop added and the
\* status it set are written; the slot keeps which rows these are and the
\* dnc_entries committed before them
UploadCommit ==
    /\ app = "ops"
    /\ \E k \in Slots :
          /\ inflight[k].pc = "upload_checked"
          /\ Len(targets) + Len(inflight[k].pending) <= MaxTargets
          /\ customers' = customers \cup inflight[k].customers
          /\ targets' = targets \o inflight[k].pending
          /\ campaigns' = [campaigns EXCEPT
                              ![inflight[k].campaign_id].status = inflight[k].status]
          /\ http' = [op |-> "upload_targets", code |-> 200, message |-> "uploaded",
                      detail |-> inflight[k].detail]
          /\ inflight' = [inflight EXCEPT ![k] =
                             [pc |-> "uploaded",
                              created |-> (Len(targets) + 1)
                                            ..(Len(targets) + Len(inflight[k].pending)),
                              dnc_entries |-> dnc_entries]]
    /\ UNCHANGED <<app, webhook_secret, calls, dnc_entries, appointments,
                   audit_logs, batch_calls, yalaVars, classified, disk, procs, marks>>

\* no webhook secret is configured (settings.elevenlabs_webhook_secret = "")
InitEnroll == Init /\ app = "ops" /\ webhook_secret = ""

NextEnroll ==
    \/ CreateCampaign
    \/ UploadCheck
    \/ UploadCommit
    \/ StartCampaign
    \/ RequestCall
    \/ PostCallWebhook

SpecEnroll == InitEnroll /\ [][NextEnroll]_vars

(* mark_webhook_processed run by two requests at the same time: each reads *)
(* the index, adds its id to what it read, and writes the whole index back *)

\* dedup = read_json(settings.webhook_dedup_file, default={})
MarkRead ==
    /\ app = "yala"
    /\ \E k \in Slots, id \in ExternalIds \cup {"e3"} :
          /\ inflight[k].pc = "idle"
          /\ inflight' = [inflight EXCEPT ![k] =
                             [pc |-> "mark_read", id |-> id,
                              dedup |-> webhook_dedup_file]]
    /\ UNCHANGED <<app, webhook_secret, opsVars, yalaVars, http, classified,
                   disk, procs, marks>>

\* dedup[webhook_id] = now_utc().isoformat(); the trim;
\* atomic_write_json(settings.webhook_dedup_file, dedup)
MarkWrite ==
    /\ app = "yala"
    /\ \E k \in Slots :
          /\ inflight[k].pc = "mark_read"
          /\ LET now == marks.clock + 1
             IN /\ webhook_dedup_file' =
                       mark_webhook_processed(inflight[k].dedup, inflight[k].id, now)
                /\ marks' = [marks EXCEPT !.clock = now]
          /\ inflight' = [inflight EXCEPT ![k] =
                             [pc |-> "done", id |-> inflight[k].id]]
    /\ UNCHANGED <<app, webhook_secret, opsVars, campaigns_file, calls_file,
                   http, classified, disk, procs>>

InitMarks == Init /\ app = "yala"

NextMarks == MarkRead \/ MarkWrite

SpecMarks == InitMarks /\ [][NextMarks]_vars

\* the file helpers of core/files.py, run by concurrent processes
InitFiles == Init /\ app = "yala" /\ webhook_secret = ""

NextFiles ==
    \/ Mkstemp
    \/ Dump
    \/ Replace
    \/ DumpFails
    \/ Crash
    \/ ReadJson
    \/ LockAppend
    \/ LockTimeout
    \/ WriteAppend
    \/ UnlockAppend

SpecFiles == InitFiles /\ [][NextFiles]_vars

\* the classifiers applied to every input, whatever the store holds
NextClassify == MapCallOutcome \/ MapOutcome

SpecClassify == Init /\ [][NextClassify]_vars

---------------------------------------------------------------------------
(* ops: two deliveries handled at the same time.  handle_post_call_webhook  *)
(* suspends at every await: a request first reads the rows it resolves     *)
(* (WebhookRead), and later flushes and commits what it computed from them *)
(* (WebhookCommit); another request may run in between.                    *)

\* rows of `after` that `before` does not hold
Inserted(before, after) == SubSeq(after, Len(before) + 1, Len(after))

\* flush and commit of the writes a request computed from the rows it read
\* (snap), onto the rows the database holds now: the UPDATEs carry the values
\* computed from snap, the INSERTs are added, and a second DncEntry for the
\* same (org, phone) violates uq_dnc_org_phone
commit_concurrent(db, snap, r) ==
    IF r.code /= 200 \/ r.db = snap THEN Reply(db, r.code, r.message)
    ELSE IF (r.db.dnc_entries \ snap.dnc_entries) \cap db.dnc_entries /= {}
    THEN Reply(db, 500, "Internal server error")
    ELSE Reply([db EXCEPT
                   !.calls = [c \in DOMAIN @ |->
                                 IF r.db.calls[c] /= snap.calls[c]
                                 THEN r.db.calls[c] ELSE @[c]],
                   !.targets = [i \in 1..Len(@) |->
                                   IF i <= Len(snap.targets)
                                      /\ r.db.targets[i] /= snap.targets[i]
                                   THEN r.db.targets[i] ELSE @[i]],
                   !.dnc_entries = @ \cup r.db.dnc_entries,
                   !.appointments = @ \o Inserted(snap.appointments,
                                                  r.db.appointments),
                   !.audit_logs = @ \o Inserted(snap.audit_logs, r.db.audit_logs)],
               r.code, r.message)

\* the rest of the model's operations run while no webhook is suspended
Setup ==
    /\ \A k \in Slots : inflight[k].pc = "idle"
    /\ (CreateCampaign \/ UploadTargets \/ StartCampaign \/ RequestCall)

\* the requests of one run are deliveries of one event
SameEvent(payload) ==
    \A k \in Slots : inflight[k].pc /= "idle" => inflight[k].payload = payload

WebhookRead ==
    /\ app = "ops"
    /\ \E k \in Slots, payload \in Payloads :
          /\ inflight[k].pc = "idle"
          /\ payload.conversation_id /= NoConv
          /\ calls[payload.conversation_id].exists
          /\ payload.target_id = calls[payload.conversation_id].target_id
          /\ SameEvent(payload)
          /\ inflight' = [inflight EXCEPT ![k] =
                             [pc |-> "read", payload |-> payload, snap |-> DB,
                              raced |-> \E j \in Slots : inflight[j].pc = "read"]]
    /\ UNCHANGED <<app, webhook_secret, opsVars, yalaVars, http, classified, disk, procs, marks>>

WebhookCommit ==
    /\ app = "ops"
    /\ \E k \in Slots :
          /\ inflight[k].pc = "read"
          /\ LET payload == inflight[k].payload
                 snap == inflight[k].snap
                 r == handle_post_call_webhook(snap, webhook_secret, payload,
                                               HmacHex(webhook_secret, payload), TRUE)
                 c == commit_concurrent(DB, snap, r)
             IN /\ Store(c.db)
                /\ http' = Http("post_call", c, NoDetail)
                /\ inflight' = [inflight EXCEPT ![k] =
                                   [pc |-> "done", payload |-> payload,
                                    code |-> c.code, message |-> c.message,
                                    raced |-> inflight[k].raced]]
    /\ UNCHANGED <<app, webhook_secret, yalaVars, classified, disk, procs, marks>>

InitConc == Init /\ app = "ops"

NextConc == Setup \/ WebhookRead \/ WebhookCommit

SpecConc == InitConc /\ [][NextConc]_vars

---------------------------------------------------------------------------
(* ops: webhooks of two conversations handled at the same time *)

ParConvIds == {"c1", "c2"}

\* an opt-out or an unanswered call, with or without transcript and summary
ParPayloads ==
    {p \in [conversation_id : ParConvIds,
            target_id : 1..MaxTargets,
            analysis : {NoAnalysis, OptOut},
            status : {"completed", "no_answer"},
            sentiment_score : {"none"},
            transcript : {NoText, <<"a">>},
            summary : {NoText, <<"a">>}] :
        /\ p.analysis.present <=> p.status = "completed"
        /\ p.summary = p.transcript}

WebhookReadPar ==
    /\ app = "ops"
    /\ \E k \in Slots, payload \in ParPayloads :
          /\ inflight[k].pc = "idle"
          /\ calls[payload.conversation_id].exists
          /\ payload.target_id = calls[payload.conversation_id].target_id
          /\ \A j \in Slots :
                inflight[j].pc /= "idle" =>
                    inflight[j].payload.conversation_id /= payload.conversation_id
          /\ inflight' = [inflight EXCEPT ![k] =
                             [pc |-> "read", payload |-> payload, snap |-> DB,
                              raced |-> \E j \in Slots : inflight[j].pc = "read"]]
    /\ UNCHANGED <<app, webhook_secret, opsVars, yalaVars, http, classified, disk, procs, marks>>

InitPar ==
    /\ app = "ops"
    /\ webhook_secret = ""
    /\ campaigns = <<>>
    /\ customers = {}
    /\ targets = <<>>
    /\ calls = [c \in ParConvIds |-> NoCall]
    /\ dnc_entries = {}
    /\ appointments = <<>>
    /\ audit_logs = <<>>
    /\ batch_calls = <<>>
    /\ campaigns_file = <<>>
    /\ calls_file = <<>>
    /\ webhook_dedup_file = <<>>
    /\ inflight = [k \in Slots |-> Idle]
    /\ http = [op |-> "none", code |-> 0, message |-> "", detail |-> NoDetail]
    /\ classified = NotClassified
    /\ disk = NoWrites
    /\ procs = NotStarted
    /\ marks = NoMarks

NextPar == Setup \/ WebhookReadPar \/ WebhookCommit

SpecPar == InitPar /\ [][NextPar]_vars

---------------------------------------------------------------------------
(* Properties *)

PostCall(db, q) ==
    handle_post_call_webhook(db, webhook_secret, q.payload, SignatureOf(q), q.io_ok)

Elevenlabs(fs, q) ==
    elevenlabs_webhook(fs, webhook_secret, q.payload, SignatureOf(q), q.fail)

KindOf(q) == SignatureKind(webhook_secret, q.payload, SignatureOf(q))

\* C1: a post-call webhook that was applied, delivered again unchanged, is
\* answered with success and leaves the state as the first delivery left it
\* (no second increment of attempts_count, no second AuditLog or Appointment).
C1_RedeliveryChangesNothing ==
    app = "ops" =>
        \A q \in Deliveries :
            LET first == PostCall(DB, q)
                again == PostCall(first.db, q)
            IN (first.code = 200 /\ first.db /= DB) =>
                   (again.code = 200 /\ again.db = first.db)

\* C2: when two deliveries of one event were both suspended between reading
\* and committing, one of them is answered "duplicate", and a BOOKED event
\* has created exactly one Appointment.
C2_OneAppliesOtherDuplicate ==
    ( /\ \A k \in Slots : inflight[k].pc = "done" /\ inflight[k].code = 200
      /\ \E k \in Slots : inflight[k].raced )
    => /\ \E k \in Slots : inflight[k].message = "duplicate"
       /\ \A k \in Slots :
             map_call_outcome(inflight[k].payload.analysis,
                              inflight[k].payload.status) = "BOOKED"
                 => Len(appointments) = 1

\* C3: with a DncEntry for (org, phone), upload_targets in that org counts
\* every candidate with that phone in skipped_dnc and creates no
\* CampaignTarget for it, whatever the campaign; the rows it already held
\* and the DNC list stay as they were.
C3_DncPhoneRejected ==
    app = "ops" =>
        \A c \in 1..MaxCampaigns, org \in Orgs, items \in UploadLists :
            LET r == upload_targets(DB, c, org, items)
                listed == {i \in 1..Len(items) : <<org, items[i]>> \in dnc_entries}
            IN r.code = 200 =>
                   /\ r.skipped_dnc = Cardinality(listed)
                   /\ \A j \in (Len(targets) + 1)..Len(r.db.targets) :
                         r.db.targets[j].customer_id \notin dnc_entries
                   /\ SubSeq(r.db.targets, 1, Len(targets)) = targets
                   /\ r.db.dnc_entries = dnc_entries

\* an upload that named a phone on the DNC list next to one that is not
C3_Witness ==
    /\ http.op = "upload_targets"
    /\ http.code = 200
    /\ http.detail.skipped_dnc > 0
    /\ http.detail.created > 0
    /\ dnc_entries /= {}

\* C4: a target that is DONE, FAILED or OPTED_OUT keeps its status and its
\* attempts_count under every webhook delivered afterwards.
C4_TerminalTargetsFrozen ==
    app = "ops" =>
        \A q \in Deliveries :
            LET r == PostCall(DB, q)
            IN \A t \in 1..Len(targets) :
                   targets[t].status \in TerminalStatuses =>
                       /\ r.db.targets[t].status = targets[t].status
                       /\ r.db.targets[t].attempts_count = targets[t].attempts_count

\* C5: a target whose outcomes were neither BOOKED nor OPT_OUT is FAILED
\* exactly when its attempts_count has reached the max_attempts of its
\* campaign's retry policy.
C5_FailedAtMaxAttempts ==
    \A t \in 1..Len(targets) :
        LET m == campaigns[targets[t].campaign_id].max_attempts
        IN (targets[t].status \notin {"DONE", "OPTED_OUT"}
            /\ targets[t].last_outcome \notin {"BOOKED", "OPT_OUT"})
               => (targets[t].status = "FAILED" <=> targets[t].attempts_count >= m)

\* C6: with a secret configured, a request whose signature header is not the
\* HMAC-SHA256 of its body (another key, or the HMAC of another body) is
\* answered 401 and changes nothing, the dedup file included.
C6_BadSignatureRejected ==
    webhook_secret /= "" =>
        /\ app = "ops" =>
               \A q \in Requests :
                   KindOf(q) = "invalid" =>
                       (PostCall(DB, q).code = 401 /\ PostCall(DB, q).db = DB)
        /\ app = "yala" =>
               \A q \in YalaRequests :
                   KindOf(q) = "invalid" =>
                       (Elevenlabs(FS, q).code = 401 /\ Elevenlabs(FS, q).db = FS)

\* a badly signed delivery for a call that is waiting for its webhook
C6_Witness ==
    /\ webhook_secret /= ""
    /\ http.op = "post_call"
    /\ http.code = 401
    /\ http.message = "Invalid webhook signature"
    /\ \E c \in ConvIds : calls[c].exists /\ calls[c].status = "QUEUED"

\* C7: a webhook answered with an error has persisted nothing: no call
\* update, no counter, no dedup mark.
C7_FailureLeavesNothing ==
    /\ app = "ops" =>
           \A q \in Deliveries : PostCall(DB, q).code = 500 => PostCall(DB, q).db = DB
    /\ app = "yala" =>
           \A q \in YalaDeliveries :
               Elevenlabs(FS, q).code = 500 => Elevenlabs(FS, q).db = FS

\* C8: with a secret configured, a request whose signature header is missing
\* or does not verify against its body gets no further than the signature
\* check in any webhook handler: it changes no call, counter or dedup mark.
C8_UnverifiedChangesNothing ==
    webhook_secret /= "" =>
        /\ app = "ops" =>
               \A q \in Requests : KindOf(q) /= "valid" => PostCall(DB, q).db = DB
        /\ app = "yala" =>
               \A q \in YalaRequests : KindOf(q) /= "valid" => Elevenlabs(FS, q).db = FS

\* C9: the batch request start_campaign sends names no recipient whose
\* phone is on the DNC list of the campaign's org at that time.
C9_NoDncRecipient ==
    app = "ops" =>
        \A c \in 1..Len(campaigns), provider \in Providers :
            LET r == start_campaign(DB, c, campaigns[c].org_id, provider)
            IN \A i \in (Len(batch_calls) + 1)..Len(r.db.batch_calls) :
                   \A x \in r.db.batch_calls[i].recipients :
                       x.customer_id \notin dnc_entries

\* C10: an accepted webhook whose conversation id matches no Call and whose
\* metadata names no target is answered with success and changes nothing.
C10_NoContextNoChange ==
    /\ app = "ops" =>
           \A q \in Requests :
               ( /\ (webhook_secret = "" \/ KindOf(q) = "valid")
                 /\ q.payload.conversation_id /= NoConv
                 /\ ~calls[q.payload.conversation_id].exists
                 /\ q.payload.target_id \notin 1..Len(targets) )
               => (PostCall(DB, q).code = 200 /\ PostCall(DB, q).db = DB)
    /\ app = "yala" =>
           \A q \in YalaRequests :
               ( /\ (webhook_secret = "" \/ KindOf(q) /= "invalid")
                 /\ q.payload.conversation_id /= NoConv
                 /\ get_call_by_elevenlabs_id(calls_file, q.payload.conversation_id) = 0 )
               => (Elevenlabs(FS, q).code = 200 /\ Elevenlabs(FS, q).db = FS)

\* a webhook without context arriving while targets exist
C10_Witness ==
    /\ http.op = "post_call"
    /\ http.code = 200
    /\ http.message = "Webhook received, but no customer context found"
    /\ Len(targets) > 0

Recon(db, p) ==
    handle_post_call_webhook(db, webhook_secret, p, HmacHex(webhook_secret, p), TRUE)

\* C11: every Call a webhook has completed has an AuditLog entry carrying
\* its conversation id and the outcome the last applied event gave it, also
\* when the Call was matched by conversation id and the payload had no
\* metadata.
C11_AppliedEventLogged ==
    app = "ops" =>
        \A c \in ConvIds :
            (calls[c].exists /\ calls[c].status = "COMPLETED") =>
                \E i \in 1..Len(audit_logs) :
                    /\ audit_logs[i].conversation_id = c
                    /\ audit_logs[i].outcome = calls[c].outcome

\* C12: a Call whose applied webhook was BOOKED for its target has an
\* Appointment for its customer, with or without a pickup date; and a
\* webhook with another outcome creates no Appointment.
C12_BookedHasAppointment ==
    app = "ops" =>
        /\ \A c \in ConvIds :
               ( /\ calls[c].exists
                 /\ calls[c].outcome = "BOOKED"
                 /\ targets[calls[c].target_id].last_outcome = "BOOKED" ) =>
                   \E i \in 1..Len(appointments) :
                       /\ appointments[i].call_id = calls[c].id
                       /\ appointments[i].customer_id = calls[c].customer_id
        /\ \A p \in ReconDeliveries :
               map_call_outcome(p.analysis, p.status) /= "BOOKED"
                   => Recon(DB, p).db.appointments = appointments

\* C13: a BOOKED webhook whose pickup date does not parse is applied; the
\* Appointment it creates starts today at 09:00 and its Call is flagged
\* requires_human_review.
C13_FallbackFlagsReview ==
    app = "ops" =>
        /\ \A p \in ReconDeliveries :
               ( /\ calls[p.conversation_id].exists
                 /\ p.target_id /= NoTarget
                 /\ p.analysis.appointment_booked
                 /\ p.analysis.pickup_date = "bad" )
               => LET r == Recon(DB, p)
                  IN /\ r.code = 200
                     /\ Len(r.db.appointments) = Len(appointments) + 1
                     /\ r.db.appointments[Len(r.db.appointments)].scheduled_start
                            = "today_0900"
        /\ \A i \in 1..Len(appointments) :
               appointments[i].scheduled_start = "today_0900" =>
                   \A c \in ConvIds :
                       (calls[c].exists /\ calls[c].id = appointments[i].call_id)
                           => calls[c].requires_human_review

\* a webhook's sentiment score is below the threshold, or it asks for a
\* callback without giving a time
NeedsReview(p) ==
    \/ p.sentiment_score = "low"
    \/ /\ map_call_outcome(p.analysis, p.status) = "CALLBACK_REQUESTED"
       /\ ~p.analysis.callback_time

\* C14: the Call a webhook with a low sentiment score, or with a callback
\* request and no callback time, leaves behind has requires_human_review
\* set, when the handler updates a Call and when it creates one.
C14_ReviewFlagged ==
    app = "ops" =>
        \A p \in ReconPayloads :
            NeedsReview(p) =>
                /\ calls[p.conversation_id].exists =>
                       LET r == Recon(DB, p)
                       IN r.code = 200
                              => r.db.calls[p.conversation_id].requires_human_review
                /\ ( /\ ~calls[p.conversation_id].exists
                     /\ ResolveTarget(DB, p) /= NoTarget )
                   => LET tid == ResolveTarget(DB, p)
                      IN lazy_call(p, tid, targets[tid].customer_id,
                                   targets[tid].campaign_id,
                                   map_call_outcome(p.analysis, p.status))
                             .requires_human_review

\* C15: map_call_outcome follows the classification table: appointment_booked
\* gives BOOKED; else opt_out gives OPT_OUT; else callback_requested gives
\* CALLBACK_REQUESTED, whatever the status; no analysis and status
\* "no_answer" gives NO_ANSWER; no flag and no recognised status gives OTHER.
C15_OutcomeTable ==
    classified.fn = "map_call_outcome" =>
        LET a == classified.input.analysis
            s == classified.input.status
            out == classified.out
        IN /\ a.appointment_booked => out = "BOOKED"
           /\ (~a.appointment_booked /\ a.opt_out) => out = "OPT_OUT"
           /\ (~a.appointment_booked /\ ~a.opt_out /\ a.callback_requested)
                  => out = "CALLBACK_REQUESTED"
           /\ (~a.present /\ s = "no_answer") => out = "NO_ANSWER"
           /\ ( /\ ~a.appointment_booked /\ ~a.opt_out /\ ~a.callback_requested
                /\ s \notin {"no_answer", "busy", "voicemail"} )
                  => out = "OTHER"

\* every flag set and a status that names another outcome: BOOKED wins
C15_Witness ==
    /\ classified.fn = "map_call_outcome"
    /\ classified.input.analysis.appointment_booked
    /\ classified.input.analysis.opt_out
    /\ classified.input.analysis.callback_requested
    /\ classified.input.status = "no_answer"
    /\ classified.out = "BOOKED"

\* C16: the raw status is used whenever no flag matched: a payload with no
\* flag set and status no_answer, busy or voicemail is classified NO_ANSWER,
\* BUSY or VOICEMAIL, also when its analysis object is present.
C16_StatusUsedWithoutFlag ==
    classified.fn = "map_call_outcome" =>
        LET a == classified.input.analysis
            s == classified.input.status
        IN (~a.appointment_booked /\ ~a.opt_out /\ ~a.callback_requested) =>
               /\ s = "no_answer" => classified.out = "NO_ANSWER"
               /\ s = "busy" => classified.out = "BUSY"
               /\ s = "voicemail" => classified.out = "VOICEMAIL"

\* C17: both classifiers return a member of their outcome enum for every
\* input, a null analysis, a null intent and a null status included.
C17_ClassifiersTotal ==
    /\ classified.fn = "map_call_outcome" => classified.out \in Outcomes
    /\ classified.fn = "map_outcome" => classified.out \in YalaOutcomes

\* C18: no two CampaignTargets have the same campaign_id and customer_id.
C18_OneTargetPerCustomer ==
    \A i \in 1..Len(targets), j \in 1..Len(targets) :
        (i /= j) =>
            ~ ( /\ targets[i].campaign_id = targets[j].campaign_id
                /\ targets[i].customer_id = targets[j].customer_id )

\* C19: start_campaign on a campaign that is neither READY nor PAUSED is
\* rejected, reaches no provider and changes nothing.
C19_StartOnlyFromReadyOrPaused ==
    /\ app = "ops" =>
           \A c \in 1..Len(campaigns), provider \in Providers :
               LET r == start_campaign(DB, c, campaigns[c].org_id, provider)
               IN campaigns[c].status \notin {"READY", "PAUSED"} =>
                      (r.code = 400 /\ r.db = DB)
    /\ app = "yala" =>
           \A cid \in 1..Len(campaigns_file), errors \in SUBSET (1..MaxLeads) :
               LET r == yala_start_campaign(FS, cid, errors)
               IN campaigns_file[cid].status \notin {"ready", "paused"} =>
                      (r.code = 400 /\ r.db = FS)

\* C20: a start whose provider request fails leaves the campaign FAILED,
\* every target and call as it was (the selected ones PENDING, attempts
\* unchanged) and stores no batch id.
C20_ProviderFailureKeepsPending ==
    /\ app = "ops" =>
           \A c \in 1..Len(campaigns), provider \in Providers \ {"ok"} :
               LET r == start_campaign(DB, c, campaigns[c].org_id, provider)
               IN r.code = 500 =>
                      /\ r.db.campaigns[c].status = "FAILED"
                      /\ r.db.campaigns[c].eleven_batch_id
                             = campaigns[c].eleven_batch_id
                      /\ r.db.targets = targets
                      /\ r.db.calls = calls
    /\ app = "yala" =>
           \A cid \in 1..Len(campaigns_file) :
               LET batch == PendingCalls(FS, cid)
                   r == yala_start_campaign(FS, cid, batch)
               IN (campaigns_file[cid].status /= "running" /\ batch /= {}) =>
                      /\ r.db.campaigns[cid].status = "failed"
                      /\ r.db.calls = calls_file

\* old is what new begins with
IsPrefix(old, new) ==
    Len(old) <= Len(new) /\ SubSeq(new, 1, Len(old)) = old

\* C21: a campaign left FAILED by a start whose provider request failed can
\* be started again: with its targets still PENDING and the provider
\* answering, start_campaign makes it RUNNING and the targets IN_PROGRESS.
C21_FailedCampaignRestartable ==
    app = "ops" =>
        \A c \in 1..Len(campaigns) :
            (campaigns[c].status = "FAILED" /\ PendingTargets(DB, c) /= {}) =>
                LET r == start_campaign(DB, c, campaigns[c].org_id, "ok")
                IN /\ r.code = 200
                   /\ r.db.campaigns[c].status = "RUNNING"
                   /\ \A t \in PendingTargets(DB, c) :
                         r.db.targets[t].status = "IN_PROGRESS"

\* C22: a start the provider accepts makes the campaign RUNNING with the
\* batch id on it, sends one batch request, makes exactly the targets named
\* in that request IN_PROGRESS, and changes no other target or campaign.
C22_StartMarksExactlySent ==
    app = "ops" =>
        \A c \in 1..Len(campaigns) :
            LET r == start_campaign(DB, c, campaigns[c].org_id, "ok")
            IN r.code = 200 =>
                   /\ r.db.campaigns[c].status = "RUNNING"
                   /\ r.db.campaigns[c].eleven_batch_id /= NoBatch
                   /\ \A d \in 1..Len(campaigns) :
                         d /= c => r.db.campaigns[d] = campaigns[d]
                   /\ Len(r.db.batch_calls) = Len(batch_calls) + 1
                   /\ LET request == r.db.batch_calls[Len(r.db.batch_calls)]
                          sent == {x.target_id : x \in request.recipients}
                      IN /\ sent /= {}
                         /\ \A t \in sent :
                               targets[t].campaign_id = c /\ targets[t].status = "PENDING"
                         /\ Len(r.db.targets) = Len(targets)
                         /\ \A t \in 1..Len(targets) :
                               r.db.targets[t] =
                                   IF t \in sent
                                   THEN [targets[t] EXCEPT !.status = "IN_PROGRESS"]
                                   ELSE targets[t]

\* a campaign was started while a target of another campaign was waiting
C22_Witness ==
    /\ http.op = "start_campaign"
    /\ http.code = 200
    /\ \E c \in 1..Len(campaigns) :
          campaigns[c].status = "RUNNING" /\ campaigns[c].eleven_batch_id /= NoBatch
    /\ \E t \in 1..Len(targets) : targets[t].status = "IN_PROGRESS"
    /\ \E t \in 1..Len(targets) : targets[t].status = "PENDING"

\* C23: when OPT_OUT webhooks of two conversations for customers with the
\* same org and phone have both been handled, in whatever interleaving,
\* both were answered with success and the phone is on the DNC list.
C23_OptOutInsertIfAbsent ==
    ( /\ \A k \in Slots : inflight[k].pc = "done" /\ inflight[k].payload.analysis.opt_out
      /\ \A j \in Slots, k \in Slots :
            targets[inflight[j].payload.target_id].customer_id
                = targets[inflight[k].payload.target_id].customer_id )
    => /\ \A k \in Slots : inflight[k].code = 200
       /\ \A k \in Slots :
             targets[inflight[k].payload.target_id].customer_id \in dnc_entries

\* C24: no update of a webhook is lost to a webhook of another conversation
\* handled at the same time: a target's attempts_count is the number of
\* events applied to it (each has its AuditLog), and the Call of every
\* webhook answered with success is COMPLETED.
C24_NoLostUpdate ==
    /\ \A t \in 1..Len(targets) :
           targets[t].attempts_count =
               Cardinality({i \in 1..Len(audit_logs) :
                               calls[audit_logs[i].conversation_id].target_id = t})
    /\ \A k \in Slots :
           (inflight[k].pc = "done" /\ inflight[k].code = 200) =>
               calls[inflight[k].payload.conversation_id].status = "COMPLETED"

\* C25: a webhook request with a well-formed payload, handled while the
\* database works, is answered 200, 400 or 401, also when its conversation
\* id is new and the Call is created from the metadata.
C25_NeverServerError ==
    app = "ops" =>
        \A q \in Deliveries :
            q.io_ok => PostCall(DB, q).code \in {200, 400, 401}

\* webhooks for the Call of conversation c, with every transcript and summary
TextPayloads(c) ==
    {p \in [conversation_id : {c},
            target_id : {calls[c].target_id},
            analysis : {NoAnalysis},
            status : {"no_answer"},
            sentiment_score : {"none"},
            transcript : Texts,
            summary : Texts] : TRUE}

\* C26: a webhook for a Call keeps the Call, and leaves a transcript and a
\* summary that begin with the ones the Call had.
C26_TranscriptAppendOnly ==
    \A c \in DOMAIN calls :
        calls[c].exists =>
            \A p \in TextPayloads(c) :
                LET r == Recon(DB, p)
                IN /\ r.db.calls[c].exists
                   /\ IsPrefix(calls[c].transcript_text, r.db.calls[c].transcript_text)
                   /\ IsPrefix(calls[c].summary_text, r.db.calls[c].summary_text)

\* C27: a RUNNING campaign has a target that is PENDING or IN_PROGRESS: the
\* webhook that makes its last such target DONE, FAILED or OPTED_OUT leaves
\* the campaign COMPLETED.
C27_RunningHasOpenTarget ==
    \A c \in 1..Len(campaigns) :
        campaigns[c].status = "RUNNING" =>
            \E t \in 1..Len(targets) :
                /\ targets[t].campaign_id = c
                /\ targets[t].status \notin TerminalStatuses

\* C28: pause is accepted only on a RUNNING campaign, and resume of a PAUSED
\* campaign is accepted and makes it RUNNING when the provider answers.
C28_PauseAndResume ==
    /\ app = "ops" =>
           \A c \in 1..Len(campaigns) :
               /\ campaigns[c].status /= "RUNNING" =>
                      LET r == pause_campaign(DB, c, campaigns[c].org_id)
                      IN r.code = 400 /\ r.db = DB
               /\ campaigns[c].status = "PAUSED" =>
                      LET r == start_campaign(DB, c, campaigns[c].org_id, "ok")
                      IN r.code = 200 /\ r.db.campaigns[c].status = "RUNNING"
    /\ app = "yala" =>
           \A cid \in 1..Len(campaigns_file) :
               /\ campaigns_file[cid].status /= "running" =>
                      yala_pause_campaign(FS, cid).db = FS
               /\ campaigns_file[cid].status = "paused" =>
                      LET r == yala_start_campaign(FS, cid, {})
                      IN r.code = 200 /\ r.db.campaigns[cid].status = "running"

\* a whole document: every piece of it, all of one write
Complete(content) == \E d \in {0} \cup {DataOf(w) : w \in Writers} : content = Document(d)

\* C29: at every moment, with writers running together, failing or dying at
\* any point of atomic_write_json, the target file holds a whole document,
\* the previous one or the one of a write, and so does what a reader read.
C29_ReaderSeesWholeDocument ==
    /\ Complete(disk.json)
    /\ Complete(procs[Reader].saw)

\* a reader read the document of one writer after the other writer died
\* with half a document in its temp file
C29_Witness ==
    /\ \E w \in Writers :
          /\ procs[w].pc = "crashed"
          /\ Len(disk.tmp[w].content) = 1
    /\ \E w \in Writers :
          /\ procs[w].pc = "done"
          /\ procs[Reader].saw = Document(DataOf(w))

Heads(a) == {i \in 1..Len(disk.jsonl) :
                disk.jsonl[i].rec = a /\ disk.jsonl[i].part = "head"}

Tails(a) == {i \in 1..Len(disk.jsonl) :
                disk.jsonl[i].rec = a /\ disk.jsonl[i].part = "tail"}

\* C30: with appenders running together, the JSONL file is a sequence of
\* whole lines (each head followed at once by its own tail), the record of
\* every append that returned is in it exactly once, and after the records
\* of the appends that had returned before it took the lock.
C30_AppendsWholeLinesInOrder ==
    /\ \A i \in 1..Len(disk.jsonl) :
           IF i % 2 = 1
           THEN /\ disk.jsonl[i].part = "head"
                /\ i < Len(disk.jsonl) =>
                       /\ disk.jsonl[i + 1].part = "tail"
                       /\ disk.jsonl[i + 1].rec = disk.jsonl[i].rec
           ELSE disk.jsonl[i].part = "tail"
    /\ \A a \in Appenders :
           procs[a].pc = "done" =>
               /\ Cardinality(Heads(a)) = 1
               /\ Cardinality(Tails(a)) = 1
               /\ \A b \in procs[a].before :
                      \A i \in Heads(b), j \in Heads(a) : i < j

\* both appends returned, one of them after the other
C30_Witness ==
    /\ \A a \in Appenders : procs[a].pc = "done"
    /\ Len(disk.jsonl) = 2 * Cardinality(Appenders)
    /\ \E a \in Appenders : procs[a].before /= {}

\* C31: after any sequence of marks the dedup index holds at most DedupLimit
\* ids, each once; the id just marked is reported as processed; and every id
\* that was marked and is no longer in the index was last marked before
\* every id the index still holds, so the DedupLimit most recently marked
\* ids are all reported as processed.
C31_DedupKeepsNewest ==
    LET kept == {webhook_dedup_file[i].id : i \in 1..Len(webhook_dedup_file)}
        ever == {id \in DOMAIN marks.last : marks.last[id] > 0}
        evicted == ever \ kept
    IN marks /= NoMarks =>
          /\ Len(webhook_dedup_file) <= DedupLimit
          /\ Cardinality(kept) = Len(webhook_dedup_file)
          /\ kept \subseteq ever
          /\ Cardinality(kept) = IF Cardinality(ever) > DedupLimit
                                 THEN DedupLimit ELSE Cardinality(ever)
          /\ marks.id /= 0 => check_webhook_processed(webhook_dedup_file, marks.id)
          /\ \A e \in evicted : \A i \in 1..Len(webhook_dedup_file) :
                 /\ marks.last[e] < webhook_dedup_file[i].at
                 /\ webhook_dedup_file[i].at = marks.last[webhook_dedup_file[i].id]

\* a mark of a new id pushed the full index over its limit: an old id is gone
C31_Witness ==
    /\ marks /= NoMarks
    /\ marks.id = DedupLimit + 1
    /\ Len(webhook_dedup_file) = DedupLimit
    /\ ~check_webhook_processed(webhook_dedup_file, 1)
    /\ check_webhook_processed(webhook_dedup_file, marks.id)

\* C32: with one target enrolled and sent by a successful start, the webhook
\* for that target with appointment_booked and a pickup date that parses is
\* answered with success and leaves the Call with outcome BOOKED, the target
\* DONE with attempts_count 1, and exactly one Appointment.
C32_HappyPath ==
    app = "ops" =>
        \A t \in 1..Len(targets), conv \in ConvIds :
            ( /\ Len(targets) = 1
              /\ targets[t].status = "IN_PROGRESS"
              /\ targets[t].attempts_count = 0
              /\ campaigns[targets[t].campaign_id].status = "RUNNING"
              /\ appointments = <<>> ) =>
                LET p == [conversation_id |-> conv, target_id |-> t,
                          analysis |-> Booked, status |-> "completed",
                          sentiment_score |-> "none",
                          transcript |-> NoText, summary |-> NoText]
                    r == Recon(DB, p)
                IN /\ r.code = 200
                   /\ r.db.calls[conv].exists
                   /\ r.db.calls[conv].outcome = "BOOKED"
                   /\ r.db.targets[t].status = "DONE"
                   /\ r.db.targets[t].attempts_count = 1
                   /\ Len(r.db.appointments) = 1

\* C33: no campaign that has a CampaignTarget is in DRAFT.  A campaign is
\* created in DRAFT and without targets; an upload that creates a target of
\* a DRAFT campaign leaves it READY together with the new targets; an upload
\* that creates none leaves every campaign's status as it was.
C33_NoDraftWithTargets ==
    app = "ops" =>
        /\ \A t \in 1..Len(targets) :
               campaigns[targets[t].campaign_id].status /= "DRAFT"
        /\ \A org \in Orgs, m \in RetryChoices :
               LET r == create_campaign(DB, org, m)
                   new == Len(r.db.campaigns)
               IN /\ new = Len(campaigns) + 1
                  /\ r.db.campaigns[new].status = "DRAFT"
                  /\ \A t \in 1..Len(r.db.targets) :
                         r.db.targets[t].campaign_id /= new
        /\ \A c \in 1..Len(campaigns), org \in Orgs, items \in UploadLists :
               LET r == upload_targets(DB, c, org, items)
               IN /\ r.created = Len(r.db.targets) - Len(targets)
                  /\ r.created = 0 =>
                         \A d \in 1..Len(campaigns) :
                             r.db.campaigns[d].status = campaigns[d].status
                  /\ (r.created > 0 /\ campaigns[c].status = "DRAFT") =>
                         r.db.campaigns[c].status = "READY"

\* an upload to a DRAFT campaign was answered with every candidate rejected
\* as on the DNC list, while another campaign holds a target
C33_Witness ==
    /\ app = "ops"
    /\ http.op = "upload_targets"
    /\ http.code = 200
    /\ http.detail.created = 0
    /\ http.detail.skipped_dnc > 0
    /\ \E c \in 1..Len(campaigns) : campaigns[c].status = "DRAFT"
    /\ \E t \in 1..Len(targets) : campaigns[targets[t].campaign_id].status /= "DRAFT"

\* C34: a start makes one provider batch request, and no batch request
\* names more than the batch size of targets: with more PENDING targets than
\* that, the ones beyond it are not sent and stay PENDING.
C34_BatchWithinCap ==
    app = "ops" =>
        /\ \A i \in 1..Len(batch_calls) :
               Cardinality(batch_calls[i].recipients) <= MaxBatchSize
        /\ \A c \in 1..Len(campaigns) :
               LET r == start_campaign(DB, c, campaigns[c].org_id, "ok")
                   pending == Cardinality(PendingTargets(DB, c))
               IN r.code = 200 =>
                      /\ Len(r.db.batch_calls) = Len(batch_calls) + 1
                      /\ Cardinality(PendingTargets(r.db, c)) =
                             IF pending > MaxBatchSize
                             THEN pending - MaxBatchSize ELSE 0

\* the SQL application: for every recipient of every batch request, a webhook
\* that carries the recipient's metadata resolves the target the recipient was built
\* from, with the customer and the campaign the request named, whatever has
\* happened since; a webhook the handler applies changes that target only.
MetadataResolvesTarget ==
    app = "ops" =>
        \A i \in 1..Len(batch_calls) : \A x \in batch_calls[i].recipients :
            \A conv \in ConvIds :
                LET p == [conversation_id |-> conv, target_id |-> x.target_id,
                          analysis |-> NoAnalysis, status |-> "no_answer",
                          sentiment_score |-> "none",
                          transcript |-> NoText, summary |-> NoText]
                    tid == ResolveTarget(DB, p)
                    r == Recon(DB, p)
                IN /\ tid \in 1..Len(targets)
                   /\ tid = x.target_id
                   /\ targets[tid].customer_id = x.customer_id
                   /\ targets[tid].customer_id[2] = x.phone_number
                   /\ targets[tid].campaign_id = batch_calls[i].campaign_id
                   /\ r.code = 200 =>
                          /\ r.db.targets[tid].attempts_count
                                 = targets[tid].attempts_count + 1
                          /\ \A t \in 1..Len(targets) :
                                 t /= tid => r.db.targets[t] = targets[t]

\* C35: what a start sends with each recipient is enough to resolve, from the
\* webhook alone and whatever the timing, what the call was made for: in the
\* SQL application the target, in the file-based application, once the
\* provider has accepted a call and answered with its id, the call record.
C35_ProviderCallResolved ==
    /\ MetadataResolvesTarget
    /\ app = "yala" =>
           \A k \in Slots :
               inflight[k].pc = "initiated" =>
                   \A i \in inflight[k].batch \ inflight[k].errors :
                       get_call_by_elevenlabs_id(calls_file, ProviderCallId(i)) = i

\* C36: in the file-based handler the webhook id is marked processed only
\* after the call record and the campaign counters of the event have been
\* written: each campaign has counted every call of its own whose webhook id
\* is in the dedup index, also after a failure between two writes.
C36_MarkIsLastWrite ==
    app = "yala" =>
        \A cid \in 1..Len(campaigns_file) :
            campaigns_file[cid].calls_completed >=
                Cardinality({i \in 1..Len(calls_file) :
                    /\ calls_file[i].campaign_id = cid
                    /\ calls_file[i].elevenlabs_call_id /= NoConv
                    /\ check_webhook_processed(webhook_dedup_file,
                                               calls_file[i].elevenlabs_call_id)})

\* C37: when two start requests for one campaign are handled at the same
\* time, no target is sent to the provider in two batch requests and at most
\* one of the two requests is accepted.
C37_StartIsCriticalSection ==
    app = "ops" =>
        /\ \A i, j \in 1..Len(batch_calls) :
              (i < j /\ batch_calls[i].campaign_id = batch_calls[j].campaign_id) =>
                  {x.target_id : x \in batch_calls[i].recipients}
                      \cap {x.target_id : x \in batch_calls[j].recipients} = {}
        /\ \A k, l \in Slots :
              (/\ k /= l
               /\ inflight[k].pc = "done"
               /\ inflight[l].pc = "done"
               /\ inflight[k].campaign_id = inflight[l].campaign_id)
                  => ~(inflight[k].code = 200 /\ inflight[l].code = 200)

\* C38: no call record disappears from the file-based call store: every call
\* a campaign was created with is still in the calls file, whatever was
\* created or updated since and wherever an update of a call stopped.
C38_NoCallDisappears ==
    app = "yala" =>
        \A cid \in 1..Len(campaigns_file) :
            Cardinality({i \in 1..Len(calls_file) : calls_file[i].campaign_id = cid})
                = campaigns_file[cid].total_leads

\* C39: a mark that has returned is durable against marks that run at the
\* same time: the id of every returned mark is reported as processed by
\* check_webhook_processed (the index is far from its size bound here).
C39_MarkSurvivesConcurrentMark ==
    app = "yala" =>
        \A k \in Slots :
            inflight[k].pc = "done" =>
                check_webhook_processed(webhook_dedup_file, inflight[k].id)

\* C40: the DNC check and the target creation of an upload are atomic with
\* respect to DNC insertion: no target an upload has committed is for a phone
\* whose DncEntry, in the campaign's org, was committed before it.
C40_NoTargetCommittedAfterDnc ==
    app = "ops" =>
        \A k \in Slots :
            inflight[k].pc = "uploaded" =>
                \A t \in inflight[k].created :
                    targets[t].customer_id \notin inflight[k].dnc_entries
====
